---- MODULE Spec2Model ----
(***************************************************************************)
(* A model of pydantic-airtable: the field type resolver                   *)
(* (field_types.py), the value converters (fields.py) and the connection   *)
(* configuration (config.py).                                              *)
(*                                                                         *)
(* Python strings whose characters matter (field names, tokens, ids, wire  *)
(* dates) are sequences of one-character strings; None is the string       *)
(* "None"; an AirTableFieldType member is its str value.                   *)
(***************************************************************************)
EXTENDS Integers, Sequences, FiniteSets, TLC

None == "None"

\* ------------------------------------------------------------------------
\* Python string primitives
\* ------------------------------------------------------------------------

\* str.startswith(prefix)
StartsWith(s, prefix) ==
    /\ Len(prefix) <= Len(s)
    /\ SubSeq(s, 1, Len(prefix)) = prefix

\* str.endswith(suffix)
EndsWith(s, suffix) ==
    /\ Len(suffix) <= Len(s)
    /\ SubSeq(s, Len(s) - Len(suffix) + 1, Len(s)) = suffix

\* re.search(pattern, s) for a pattern without metacharacters: a substring test
re_search(pattern, s) ==
    \E i \in 1..(Len(s) - Len(pattern) + 1) :
        SubSeq(s, i, i + Len(pattern) - 1) = pattern

UpperChars ==
    <<"A","B","C","D","E","F","G","H","I","J","K","L","M",
      "N","O","P","Q","R","S","T","U","V","W","X","Y","Z">>

LowerChars ==
    <<"a","b","c","d","e","f","g","h","i","j","k","l","m",
      "n","o","p","q","r","s","t","u","v","w","x","y","z">>

\* the lower-case letter of each upper-case letter
LowerOf == [c \in {UpperChars[i] : i \in 1..Len(UpperChars)} |->
               LowerChars[CHOOSE i \in 1..Len(UpperChars) : UpperChars[i] = c]]

lower_char(c) == IF c \in DOMAIN LowerOf THEN LowerOf[c] ELSE c

\* str.lower()
lower(s) == [i \in 1..Len(s) |-> lower_char(s[i])]

\* ------------------------------------------------------------------------
\* fields.py: AirTableFieldType
\* ------------------------------------------------------------------------
SINGLE_LINE_TEXT == "singleLineText"
LONG_TEXT == "multilineText"
EMAIL == "email"
URL == "url"
PHONE == "phoneNumber"
NUMBER == "number"
CURRENCY == "currency"
PERCENT == "percent"
RATING == "rating"
DURATION == "duration"
DATE == "date"
DATETIME == "dateTime"
CHECKBOX == "checkbox"
SELECT == "singleSelect"
MULTI_SELECT == "multipleSelects"
LINKED_RECORD == "multipleRecordLinks"
LOOKUP == "lookup"
ROLLUP == "rollup"
COUNT == "count"
ATTACHMENT == "multipleAttachments"
BARCODE == "barcode"
BUTTON == "button"
USER == "multipleCollaborators"
FORMULA == "formula"
AUTO_NUMBER == "autoNumber"
CREATED_TIME == "createdTime"
MODIFIED_TIME == "lastModifiedTime"
CREATED_BY == "createdBy"
MODIFIED_BY == "lastModifiedBy"

AirTableFieldType ==
    { SINGLE_LINE_TEXT, LONG_TEXT, EMAIL, URL, PHONE,
      NUMBER, CURRENCY, PERCENT, RATING, DURATION,
      DATE, DATETIME,
      CHECKBOX, SELECT, MULTI_SELECT,
      LINKED_RECORD, LOOKUP, ROLLUP, COUNT,
      ATTACHMENT, BARCODE, BUTTON, USER,
      FORMULA, AUTO_NUMBER, CREATED_TIME, MODIFIED_TIME, CREATED_BY, MODIFIED_BY }

\* Truth value of an Optional[AirTableFieldType]: None is false, a member of
\* the str-mixed Enum is true exactly when its value is a non-empty string.
truthy(v) == v # None /\ v # ""

\* ------------------------------------------------------------------------
\* Python type annotations
\*   [k |-> "cls", name, args |-> <<>>]      a class (str, int, an Enum subclass)
\*   [k |-> "Union", name, args]             typing.Union[...] / Optional[...]
\*   [k |-> "generic", name, args]           a subscripted generic, name = its origin
\* ------------------------------------------------------------------------
Cls(n) == [k |-> "cls", name |-> n, args |-> <<>>]

NoneType == Cls("NoneType")

Union(a, b) == [k |-> "Union", name |-> "Union", args |-> <<a, b>>]

Optional(t) == Union(t, NoneType)

Generic(origin, a) == [k |-> "generic", name |-> origin, args |-> <<a>>]

\* classes for which issubclass(c, Enum) holds
EnumClasses == {"Priority", "Status"}

\* typing.get_origin
get_origin(t) ==
    IF t.k = "Union" THEN "Union"
    ELSE IF t.k = "generic" THEN t.name
    ELSE None

\* typing.get_args
get_args(t) == t.args

IsNotNoneType(a) == a # NoneType

\* ------------------------------------------------------------------------
\* pydantic FieldInfo and Python dicts
\*   a dict is a function from its keys; a FieldInfo is
\*   [is_none, json_schema_extra |-> [kind, d]] with kind "None", "dict" or
\*   "callable"; is_none marks the absent FieldInfo (field_info=None).
\* ------------------------------------------------------------------------
EmptyDict == [key \in {} |-> None]

\* {**a, **b} and a.update(b)
dict_merge(a, b) ==
    [key \in (DOMAIN a) \cup (DOMAIN b) |-> IF key \in DOMAIN b THEN b[key] ELSE a[key]]

NoExtra == [kind |-> "None", d |-> EmptyDict]

DictExtra(d) == [kind |-> "dict", d |-> d]

CallableExtra == [kind |-> "callable", d |-> EmptyDict]

\* pydantic.Field(json_schema_extra=extra)
Field(extra) == [is_none |-> FALSE, json_schema_extra |-> extra]

NoFieldInfo == [is_none |-> TRUE, json_schema_extra |-> NoExtra]

\* fields.py: AirTableField(airtable_field_name, airtable_field_type, read_only, **kwargs)
\* existing_extra is kwargs.get("json_schema_extra", {}) (NoExtra when the key is absent)
AirTableField(airtable_field_name, airtable_field_type, read_only, existing_extra) ==
    LET json_schema_extra == IF existing_extra.kind = "dict" THEN existing_extra.d ELSE EmptyDict
        updated == dict_merge(json_schema_extra,
                              [key \in {"airtable_field_name", "airtable_field_type",
                                        "airtable_read_only"} |->
                                  IF key = "airtable_field_name" THEN airtable_field_name
                                  ELSE IF key = "airtable_field_type" THEN airtable_field_type
                                  ELSE read_only])
    IN  Field(DictExtra(updated))

\* field_types.py: airtable_field(field_type, field_name, read_only, choices, **field_kwargs)
airtable_field(field_type, field_name, read_only, choices, existing_extra) ==
    LET keys == (IF truthy(field_type) THEN {"airtable_field_type"} ELSE {})
                \cup (IF truthy(field_name) THEN {"airtable_field_name"} ELSE {})
                \cup (IF read_only = "True" THEN {"airtable_read_only"} ELSE {})
                \cup (IF truthy(choices) THEN {"airtable_choices"} ELSE {})
        airtable_metadata ==
            [key \in keys |->
                IF key = "airtable_field_type" THEN field_type
                ELSE IF key = "airtable_field_name" THEN field_name
                ELSE IF key = "airtable_read_only" THEN "True"
                ELSE choices]
    IN  IF existing_extra.kind = "callable"
        THEN Field(DictExtra(airtable_metadata))
        ELSE Field(DictExtra(dict_merge(existing_extra.d, airtable_metadata)))

\* ------------------------------------------------------------------------
\* field_types.py: FieldTypeResolver
\* ------------------------------------------------------------------------
PYTHON_TO_AIRTABLE ==
    [c \in {"str", "int", "float", "bool", "datetime", "date", "list"} |->
        CASE c = "str" -> SINGLE_LINE_TEXT
          [] c = "int" -> NUMBER
          [] c = "float" -> NUMBER
          [] c = "bool" -> CHECKBOX
          [] c = "datetime" -> DATETIME
          [] c = "date" -> DATE
          [] c = "list" -> MULTI_SELECT]

EMAIL_PATTERNS ==
    << <<"e","m","a","i","l">>,
      <<"e","_","m","a","i","l">>,
      <<"m","a","i","l">>,
      <<"c","o","n","t","a","c","t">> >>

URL_PATTERNS ==
    << <<"u","r","l">>,
      <<"l","i","n","k">>,
      <<"w","e","b","s","i","t","e">>,
      <<"s","i","t","e">>,
      <<"h","r","e","f">> >>

PHONE_PATTERNS ==
    << <<"p","h","o","n","e">>,
      <<"t","e","l">>,
      <<"m","o","b","i","l","e">>,
      <<"c","e","l","l">> >>

\* LONG_TEXT_PATTERNS with one more pattern, 'title'
LONG_TEXT_PATTERNS_with_title ==
    << <<"d","e","s","c","r","i","p","t","i","o","n">>,
      <<"c","o","m","m","e","n","t">>,
      <<"n","o","t","e">>,
      <<"b","i","o">>,
      <<"s","u","m","m","a","r","y">>,
      <<"c","o","n","t","e","n","t">>,
      <<"b","o","d","y">>,
      <<"m","e","s","s","a","g","e">>,
      <<"d","e","t","a","i","l">>,
      <<"t","i","t","l","e">> >>

LONG_TEXT_PATTERNS ==
    << <<"d","e","s","c","r","i","p","t","i","o","n">>,
      <<"c","o","m","m","e","n","t">>,
      <<"n","o","t","e">>,
      <<"b","i","o">>,
      <<"s","u","m","m","a","r","y">>,
      <<"c","o","n","t","e","n","t">>,
      <<"b","o","d","y">>,
      <<"m","e","s","s","a","g","e">>,
      <<"d","e","t","a","i","l">> >>

CURRENCY_PATTERNS ==
    << <<"p","r","i","c","e">>,
      <<"c","o","s","t">>,
      <<"a","m","o","u","n","t">>,
      <<"f","e","e">>,
      <<"s","a","l","a","r","y">>,
      <<"w","a","g","e">>,
      <<"r","e","v","e","n","u","e">>,
      <<"b","u","d","g","e","t">>,
      <<"p","a","y","m","e","n","t">> >>

PERCENT_PATTERNS ==
    << <<"p","e","r","c","e","n","t">>,
      <<"p","e","r","c","e","n","t","a","g","e">>,
      <<"r","a","t","e">>,
      <<"r","a","t","i","o">> >>


\* any(re.search(pattern, s) for pattern in patterns)
any_search(patterns, s) == \E i \in 1..Len(patterns) : re_search(patterns[i], s)

RECURSIVE _extract_base_type(_)
_extract_base_type(python_type) ==
    LET origin == get_origin(python_type)
        non_none_args == SelectSeq(get_args(python_type), IsNotNoneType)
    IN  IF origin = "Union" /\ Len(non_none_args) > 0
        THEN _extract_base_type(non_none_args[1])
        ELSE IF origin # None
        THEN Cls(origin)
        ELSE python_type

\* _is_string_type testing the annotation itself, Optional not unwrapped
_is_string_type_exact(python_type) == python_type = Cls("str")

_is_string_type(python_type) == _extract_base_type(python_type) = Cls("str")

_is_enum_type(python_type) ==
    LET base_type == _extract_base_type(python_type)
    IN  base_type.k = "cls" /\ base_type.name \in EnumClasses

\* _detect_from_field_name that matches the patterns against the name as given
_detect_from_field_name_case_sensitive(field_name) ==
    IF any_search(EMAIL_PATTERNS, field_name) THEN EMAIL
    ELSE IF any_search(URL_PATTERNS, field_name) THEN URL
    ELSE IF any_search(PHONE_PATTERNS, field_name) THEN PHONE
    ELSE IF any_search(LONG_TEXT_PATTERNS, field_name) THEN LONG_TEXT
    ELSE None

\* _detect_from_field_name with the long-text group tried first
_detect_from_field_name_long_text_first(field_name) ==
    LET name_lower == lower(field_name)
    IN  IF any_search(LONG_TEXT_PATTERNS, name_lower) THEN LONG_TEXT
        ELSE IF any_search(EMAIL_PATTERNS, name_lower) THEN EMAIL
        ELSE IF any_search(URL_PATTERNS, name_lower) THEN URL
        ELSE IF any_search(PHONE_PATTERNS, name_lower) THEN PHONE
        ELSE None

\* _detect_from_field_name with the phone group tried before the url group
_detect_from_field_name_phone_first(field_name) ==
    LET name_lower == lower(field_name)
    IN  IF any_search(EMAIL_PATTERNS, name_lower) THEN EMAIL
        ELSE IF any_search(PHONE_PATTERNS, name_lower) THEN PHONE
        ELSE IF any_search(URL_PATTERNS, name_lower) THEN URL
        ELSE IF any_search(LONG_TEXT_PATTERNS, name_lower) THEN LONG_TEXT
        ELSE None

_detect_from_field_name(field_name) ==
    LET name_lower == lower(field_name)
    IN  IF any_search(EMAIL_PATTERNS, name_lower) THEN EMAIL
        ELSE IF any_search(URL_PATTERNS, name_lower) THEN URL
        ELSE IF any_search(PHONE_PATTERNS, name_lower) THEN PHONE
        ELSE IF any_search(LONG_TEXT_PATTERNS, name_lower) THEN LONG_TEXT
        ELSE None

\* _refine_number_type with the percent check made before the currency check
_refine_number_type_percent_first(field_name) ==
    LET name_lower == lower(field_name)
    IN  IF any_search(PERCENT_PATTERNS, name_lower) THEN PERCENT
        ELSE IF any_search(CURRENCY_PATTERNS, name_lower) THEN CURRENCY
        ELSE NUMBER

_refine_number_type(field_name) ==
    LET name_lower == lower(field_name)
    IN  IF any_search(CURRENCY_PATTERNS, name_lower) THEN CURRENCY
        ELSE IF any_search(PERCENT_PATTERNS, name_lower) THEN PERCENT
        ELSE NUMBER

\* resolve_field_type with the name patterns consulted before the metadata of
\* the declaration
resolve_field_type_name_first(field_name, python_type, field_info, explicit_type) ==
    LET extra == IF field_info.json_schema_extra.kind = "None"
                 THEN DictExtra(EmptyDict)
                 ELSE field_info.json_schema_extra
    IN  IF truthy(explicit_type) THEN explicit_type
        ELSE IF _is_string_type(python_type) /\ truthy(_detect_from_field_name(field_name))
        THEN _detect_from_field_name(field_name)
        ELSE IF /\ ~field_info.is_none
                /\ extra.kind = "dict"
                /\ "airtable_field_type" \in DOMAIN extra.d
        THEN extra.d["airtable_field_type"]
        ELSE IF _extract_base_type(python_type).name \in DOMAIN PYTHON_TO_AIRTABLE
        THEN IF PYTHON_TO_AIRTABLE[_extract_base_type(python_type).name] = NUMBER
             THEN _refine_number_type(field_name)
             ELSE PYTHON_TO_AIRTABLE[_extract_base_type(python_type).name]
        ELSE IF _is_enum_type(python_type) THEN SELECT
        ELSE SINGLE_LINE_TEXT

\* resolve_field_type with the metadata of the declaration consulted before
\* the explicit type
resolve_field_type_metadata_first(field_name, python_type, field_info, explicit_type) ==
    LET extra == IF field_info.json_schema_extra.kind = "None"
                 THEN DictExtra(EmptyDict)
                 ELSE field_info.json_schema_extra
    IN  IF /\ ~field_info.is_none
           /\ extra.kind = "dict"
           /\ "airtable_field_type" \in DOMAIN extra.d
           /\ truthy(extra.d["airtable_field_type"])
        THEN extra.d["airtable_field_type"]
        ELSE IF truthy(explicit_type) THEN explicit_type
        ELSE IF _is_string_type(python_type) /\ truthy(_detect_from_field_name(field_name))
        THEN _detect_from_field_name(field_name)
        ELSE IF _extract_base_type(python_type).name \in DOMAIN PYTHON_TO_AIRTABLE
        THEN IF PYTHON_TO_AIRTABLE[_extract_base_type(python_type).name] = NUMBER
             THEN _refine_number_type(field_name)
             ELSE PYTHON_TO_AIRTABLE[_extract_base_type(python_type).name]
        ELSE IF _is_enum_type(python_type) THEN SELECT
        ELSE SINGLE_LINE_TEXT

resolve_field_type(field_name, python_type, field_info, explicit_type) ==
    LET extra == IF field_info.json_schema_extra.kind = "None"
                 THEN DictExtra(EmptyDict)
                 ELSE field_info.json_schema_extra
        smart_type == _detect_from_field_name(field_name)
        base_type == _extract_base_type(python_type)
    IN  IF truthy(explicit_type) THEN explicit_type
        ELSE IF /\ ~field_info.is_none
                /\ extra.kind = "dict"
                /\ "airtable_field_type" \in DOMAIN extra.d
        THEN extra.d["airtable_field_type"]
        ELSE IF _is_string_type(python_type) /\ truthy(smart_type) THEN smart_type
        ELSE IF base_type.name \in DOMAIN PYTHON_TO_AIRTABLE
        THEN IF PYTHON_TO_AIRTABLE[base_type.name] = NUMBER
             THEN _refine_number_type(field_name)
             ELSE PYTHON_TO_AIRTABLE[base_type.name]
        ELSE IF _is_enum_type(python_type) THEN SELECT
        ELSE SINGLE_LINE_TEXT

\* ------------------------------------------------------------------------
\* Inputs of the resolver
\* ------------------------------------------------------------------------
Words ==
    { <<"e","m","a","i","l">>,
      <<"e","_","m","a","i","l">>,
      <<"m","a","i","l">>,
      <<"c","o","n","t","a","c","t">>,
      <<"u","r","l">>,
      <<"l","i","n","k">>,
      <<"w","e","b","s","i","t","e">>,
      <<"s","i","t","e">>,
      <<"h","r","e","f">>,
      <<"p","h","o","n","e">>,
      <<"t","e","l">>,
      <<"m","o","b","i","l","e">>,
      <<"c","e","l","l">>,
      <<"d","e","s","c","r","i","p","t","i","o","n">>,
      <<"c","o","m","m","e","n","t">>,
      <<"n","o","t","e">>,
      <<"n","o","t","e","s">>,
      <<"b","i","o">>,
      <<"s","u","m","m","a","r","y">>,
      <<"c","o","n","t","e","n","t">>,
      <<"b","o","d","y">>,
      <<"m","e","s","s","a","g","e">>,
      <<"d","e","t","a","i","l">>,
      <<"p","r","i","c","e">>,
      <<"c","o","s","t">>,
      <<"a","m","o","u","n","t">>,
      <<"f","e","e">>,
      <<"s","a","l","a","r","y">>,
      <<"w","a","g","e">>,
      <<"r","e","v","e","n","u","e">>,
      <<"b","u","d","g","e","t">>,
      <<"p","a","y","m","e","n","t">>,
      <<"p","e","r","c","e","n","t">>,
      <<"p","e","r","c","e","n","t","a","g","e">>,
      <<"r","a","t","e">>,
      <<"r","a","t","i","o">>,
      <<"n","a","m","e">>,
      <<"i","d">>,
      <<"c","o","u","n","t">>,
      <<"h","o","t","e","l">>,
      <<"t","i","t","l","e">>,
      <<"c","o","f","f","e","e">>,
      <<"x">> }

TailWords ==
    { <<"e","m","a","i","l">>,
      <<"u","r","l">>,
      <<"p","h","o","n","e">>,
      <<"n","o","t","e","s">>,
      <<"p","r","i","c","e">>,
      <<"r","a","t","e">>,
      <<"n","a","m","e">>,
      <<"i","d">> }

MixedCaseNames ==
    { <<"E","m","a","i","l">>,
      <<"E","M","A","I","L">>,
      <<"W","e","b","s","i","t","e">>,
      <<"P","H","O","N","E">>,
      <<"N","o","t","e","s">>,
      <<"P","r","i","c","e">>,
      <<"R","A","T","E">>,
      <<"N","a","m","e">>,
      <<"u","s","e","r","E","m","a","i","l">>,
      <<"H","o","m","e","P","h","o","n","e">> }

Underscore == <<"_">>

\* field names: a word, head_tail, and some names in upper and mixed case
FieldNames ==
    Words
    \cup { h \o Underscore \o t : h \in Words, t \in TailWords }
    \cup MixedCaseNames

ClassNames ==
    {"str", "int", "float", "bool", "datetime", "date", "list", "timedelta", "dict", "Priority"}

OptionalOf == {"str", "int", "float", "bool", "datetime", "timedelta", "Priority"}

PythonTypes ==
    { Cls(c) : c \in ClassNames }
    \cup { Optional(Cls(c)) : c \in OptionalOf }
    \cup { Union(NoneType, Cls("str")), Union(Cls("int"), Cls("str")),
           Union(Cls("str"), Cls("int")),
           Generic("list", Cls("str")), Optional(Generic("list", Cls("str"))),
           Generic("dict", Cls("str")) }

ExplicitTypes == {None, EMAIL, FORMULA}

DeclaredTypes == {None, URL}

ColumnNames == {None, "Column A"}

ExistingExtras == {NoExtra, DictExtra([key \in {"description"} |-> "text"]), CallableExtra}

ReadOnlyFlags == {"False", "True"}

ChoiceLists == {None}

\* ------------------------------------------------------------------------
\* State
\* ------------------------------------------------------------------------
VARIABLES
    field_info,      \* the FieldInfo of the field declaration being resolved
    resolve_call,    \* the arguments of the last resolve_field_type call
    resolve_result,  \* what that call returned
    map_op,          \* the converter calls made on the current value:
                     \* "idle", "parsed", "parsed_formatted", "formatted", "formatted_parsed"
    map_field_type,  \* the field type the converters are called with
    map_in,          \* the value the first converter was given
    map_mid,         \* what the first converter returned
    map_out,         \* what the second converter returned for map_mid
    configs,         \* the AirTableConfig objects alive, in order of creation;
                     \* an object is known by its position
    _global_config,  \* config.py's _global_config: 0 for None, else a position in configs
    environ,         \* os.environ: per prefix, the three variables (None when unset)
    cfg_call,        \* the last call into config.py and its outcome; before is
                     \* _global_config as it was when the call was made
    manager,         \* the BaseManager: its access_token and its session's headers
    http_log,        \* the HTTP requests the session has sent, in order
    mgr_call,        \* the last call into the BaseManager and its outcome
    tbl_fields,      \* the live Airtable table: the type of each of its fields
    tbl_records,     \* the live Airtable table: its records, in order of creation
    api_calls,       \* the API calls made by the model operation in progress, in order
    bind_call,       \* the last operation on the bound model and its outcome
    task,            \* the ResearchTask instance the caller holds
    task_row,        \* the row of that task stored in Airtable
    steps,           \* the ResearchStep instances of the task, by step number
    step_rows,       \* their rows stored in Airtable
    result_rows,     \* the ResearchResult rows stored in Airtable: the step number
                     \* each belongs to, 0 for the final summary
    run,             \* the execute_full_research call: its position and outcome
    step_call,       \* the last execute_research_step call and its outcome
    tools,           \* the ResearchTools object: ddgs (initialised or None) and
                     \* last_search_time
    clock,           \* time.time()
    search_call,     \* the last web_search call and its outcome
    agent_task,      \* an AgentTask instance
    agent_call,      \* the last method called on it; retries counts the
                     \* retry_execution calls made
    base_tables,     \* the tables of the Airtable base: name and id of each
    failed_tables,   \* demonstrate_table_creation's failed_tables list
    table_call       \* the _create_or_get_table call: its position and outcome

resolver_vars == <<field_info, resolve_call, resolve_result>>

mapper_vars == <<map_op, map_field_type, map_in, map_mid, map_out>>

config_vars == <<configs, _global_config, environ, cfg_call>>

manager_vars == <<manager, http_log, mgr_call>>

binding_vars == <<tbl_fields, tbl_records, api_calls, bind_call>>

researcher_vars == <<task, task_row, steps, step_rows, result_rows, run, step_call>>

tools_vars == <<tools, clock, search_call>>

agent_vars == <<agent_task, agent_call>>

tables_vars == <<base_tables, failed_tables, table_call>>

examples_vars == <<researcher_vars, tools_vars, agent_vars, tables_vars>>

vars == <<resolver_vars, mapper_vars, config_vars, manager_vars, binding_vars, examples_vars>>

\* no call into config.py in progress
NoConfigCall ==
    [op |-> "idle", access_token |-> [t |-> "None"], base_id |-> [t |-> "None"],
     table_name |-> [t |-> "None"], env_prefix |-> "AIRTABLE_", self |-> 0,
     attr |-> "None", before |-> 0, exc |-> "None", ret |-> 0]

\* config.py right after import, in a process without the variables
ConfigIdle ==
    /\ configs = <<>>
    /\ _global_config = 0
    /\ environ = [p \in {"AIRTABLE_", "TEST_"} |->
                     [ACCESS_TOKEN |-> [t |-> "None"], BASE_ID |-> [t |-> "None"],
                      TABLE_NAME |-> [t |-> "None"]]]
    /\ cfg_call = NoConfigCall

\* no exception
NoExc == [type |-> "None"]

\* no call into the BaseManager in progress
NoManagerCall ==
    [op |-> "idle", base_id |-> "None", workspace_id |-> "None",
     outcome |-> [raises |-> FALSE,
                  response |-> [status_code |-> 0, is_json |-> FALSE,
                                json |-> [j |-> "null"], text |-> ""]],
     exc |-> NoExc, ret |-> [j |-> "null"]]

\* base_manager.py before a BaseManager is constructed
ManagerIdle ==
    /\ manager = [access_token |-> "None", session_headers |-> EmptyDict]
    /\ http_log = <<>>
    /\ mgr_call = NoManagerCall

\* no operation on the bound model in progress
NoBindingCall ==
    [op |-> "idle", pc |-> "done", records |-> <<>>, pending |-> <<>>,
     filters |-> <<>>, update_field_types |-> FALSE, exc |-> "None",
     instances |-> <<>>, fields_created |-> <<>>, fields_updated |-> <<>>,
     fields_skipped |-> <<>>]

\* a bound model whose table is empty and has no field yet
BindingIdle ==
    /\ tbl_fields = <<>>
    /\ tbl_records = <<>>
    /\ api_calls = <<>>
    /\ bind_call = NoBindingCall

\* TaskStatus and StepStatus members (the same values in every example)
PENDING == "Pending"
IN_PROGRESS == "In Progress"
COMPLETED == "Completed"
FAILED == "Failed"

\* a ResearchTask as ResearchTask.create leaves it, in memory and in Airtable
NewResearchTask == [status |-> PENDING, completed_steps |-> 0, total_steps |-> 0]

NoRun == [op |-> "idle", pc |-> "idle", i |-> 0, exc |-> "None", executed |-> <<>>]

NoStepCall == [k |-> 0, exc |-> "None", ret |-> 0]

\* a research task that was created and not yet executed
ResearcherIdle ==
    /\ task = NewResearchTask
    /\ task_row = NewResearchTask
    /\ steps = <<>>
    /\ step_rows = <<>>
    /\ result_rows = <<>>
    /\ run = NoRun
    /\ step_call = NoStepCall

NoSearchCall ==
    [op |-> "idle", query |-> <<>>, max_results |-> 0, before |-> 0, attempts |-> <<>>,
     calls |-> 0, exc |-> "None", ret |-> <<>>]

\* ResearchTools() with the search backend initialised, before any search
ToolsIdle ==
    /\ tools = [ddgs |-> TRUE, last_search_time |-> 0]
    /\ clock = 2
    /\ search_call = NoSearchCall

\* an AgentTask as AgentTask.create leaves it
NewAgentTask(retry_count) ==
    [status |-> PENDING, started_at |-> 0, completed_at |-> 0, output |-> "None",
     error_message |-> "None", execution_time_seconds |-> -1, retry_count |-> retry_count]

NoAgentCall == [op |-> "idle", initial |-> 0, retries |-> 0, now |-> 1, exc |-> "None"]

AgentIdle ==
    /\ agent_task = NewAgentTask(0)
    /\ agent_call = NoAgentCall

\* error is the exception the call caught, raised the one it let through
NoTableCall ==
    [op |-> "idle", pc |-> "idle", table_name |-> "None", log |-> <<>>,
     looked_up |-> FALSE, schema |-> <<>>, error |-> "None", raised |-> "None",
     ret |-> "None", before |-> <<>>]

\* an empty base, before demonstrate_table_creation
TablesIdle ==
    /\ base_tables = <<>>
    /\ failed_tables = <<>>
    /\ table_call = NoTableCall

ExamplesIdle ==
    /\ ResearcherIdle
    /\ ToolsIdle
    /\ AgentIdle
    /\ TablesIdle

\* the value converters before any call
MapperIdle ==
    /\ map_op = "idle"
    /\ map_field_type = SINGLE_LINE_TEXT
    /\ map_in = [t |-> "None"]
    /\ map_mid = [t |-> "None"]
    /\ map_out = [t |-> "None"]

NoCall ==
    [called |-> FALSE, field_name |-> <<>>, python_type |-> Cls("str"),
     field_info |-> NoFieldInfo, explicit_type |-> None]

\* ------------------------------------------------------------------------
\* The resolver: declaring a field, then resolving its type
\* ------------------------------------------------------------------------
ResolverIdle ==
    /\ field_info = NoFieldInfo
    /\ resolve_call = NoCall
    /\ resolve_result = None

InitResolver ==
    /\ ResolverIdle
    /\ MapperIdle
    /\ ConfigIdle
    /\ ManagerIdle
    /\ BindingIdle
    /\ ExamplesIdle

\* the caller passes no field_info (the parameter's default)
DeclareNoFieldInfo ==
    /\ ~resolve_call.called
    /\ UNCHANGED <<mapper_vars, config_vars, manager_vars, binding_vars, examples_vars>>
    /\ field_info' = NoFieldInfo
    /\ resolve_call' = NoCall
    /\ resolve_result' = None

\* x: T = Field()
DeclarePlainField ==
    /\ ~resolve_call.called
    /\ UNCHANGED <<mapper_vars, config_vars, manager_vars, binding_vars, examples_vars>>
    /\ field_info' = Field(NoExtra)
    /\ resolve_call' = NoCall
    /\ resolve_result' = None

\* x: T = AirTableField(...)
DeclareAirTableField ==
    /\ ~resolve_call.called
    /\ \E n \in ColumnNames, t \in DeclaredTypes, ro \in ReadOnlyFlags :
        /\ field_info' = AirTableField(n, t, ro, NoExtra)
        /\ resolve_call' = NoCall
        /\ resolve_result' = None
        /\ UNCHANGED <<mapper_vars, config_vars, manager_vars, binding_vars, examples_vars>>

\* x: T = airtable_field(...)
Declare_airtable_field ==
    /\ ~resolve_call.called
    /\ \E t \in DeclaredTypes, n \in ColumnNames, ro \in ReadOnlyFlags,
          ch \in ChoiceLists, ex \in ExistingExtras :
        /\ field_info' = airtable_field(t, n, ro, ch, ex)
        /\ resolve_call' = NoCall
        /\ resolve_result' = None
        /\ UNCHANGED <<mapper_vars, config_vars, manager_vars, binding_vars, examples_vars>>

\* FieldTypeResolver.resolve_field_type(field_name, python_type, field_info, explicit_type)
ResolveFieldType ==
    /\ ~resolve_call.called
    /\ \E n \in FieldNames, t \in PythonTypes, e \in ExplicitTypes :
        /\ resolve_call' = [called |-> TRUE, field_name |-> n, python_type |-> t,
                            field_info |-> field_info, explicit_type |-> e]
        /\ resolve_result' = resolve_field_type(n, t, field_info, e)
        /\ UNCHANGED <<field_info, mapper_vars, config_vars, manager_vars, binding_vars, examples_vars>>

\* the call has returned; the declaration is ready for the next call
ResolveReturn ==
    /\ resolve_call.called
    /\ resolve_call' = NoCall
    /\ resolve_result' = None
    /\ UNCHANGED <<field_info, mapper_vars, config_vars, manager_vars, binding_vars, examples_vars>>

NextResolver ==
    \/ ResolveReturn
    \/ DeclareNoFieldInfo
    \/ DeclarePlainField
    \/ DeclareAirTableField
    \/ Declare_airtable_field
    \/ ResolveFieldType

SpecResolver == InitResolver /\ [][NextResolver]_vars

\* ------------------------------------------------------------------------
\* Properties of the resolver
\* ------------------------------------------------------------------------
\* the declaration carries no 'airtable_field_type' entry
NoTypeMetadata(fi) ==
    \/ fi.is_none
    \/ fi.json_schema_extra.kind # "dict"
    \/ "airtable_field_type" \notin DOMAIN fi.json_schema_extra.d

\* a resolve_field_type call with no explicit type on a declaration without
\* type metadata
PlainCall ==
    /\ resolve_call.called
    /\ resolve_call.explicit_type = None
    /\ NoTypeMetadata(resolve_call.field_info)

StringTypes == {Cls("str"), Optional(Cls("str"))}

NumberTypes == {Cls("int"), Cls("float"), Optional(Cls("int")), Optional(Cls("float"))}

BoolTypes == {Cls("bool"), Optional(Cls("bool"))}

ContainsAny(words, s) == \E w \in words : re_search(w, s)

S_email == <<"e","m","a","i","l">>
S__email == <<"_","e","m","a","i","l">>
S__url == <<"_","u","r","l">>
S_website == <<"w","e","b","s","i","t","e">>
S_phone == <<"p","h","o","n","e">>
S_description == <<"d","e","s","c","r","i","p","t","i","o","n">>
S_notes == <<"n","o","t","e","s">>
S_bio == <<"b","i","o">>
S_phone_url == <<"p","h","o","n","e","_","u","r","l">>
S_price_rate == <<"p","r","i","c","e","_","r","a","t","e">>
S_title == <<"t","i","t","l","e">>

IsEmailForm(s) == EndsWith(s, S__email) \/ StartsWith(s, S_email)

IsUrlForm(s) == EndsWith(s, S__url) \/ StartsWith(s, S_website)

IsPhoneForm(s) == re_search(S_phone, s)

IsLongTextName(s) == s \in {S_description, S_notes, S_bio}

EmailWords ==
    { <<"e","m","a","i","l">>,
      <<"e","_","m","a","i","l">>,
      <<"m","a","i","l">>,
      <<"c","o","n","t","a","c","t">> }

UrlWords ==
    { <<"u","r","l">>,
      <<"l","i","n","k">>,
      <<"w","e","b","s","i","t","e">>,
      <<"s","i","t","e">>,
      <<"h","r","e","f">> }

PhoneWords ==
    { <<"p","h","o","n","e">>,
      <<"t","e","l">>,
      <<"m","o","b","i","l","e">>,
      <<"c","e","l","l">> }

LongTextWords ==
    { <<"d","e","s","c","r","i","p","t","i","o","n">>,
      <<"c","o","m","m","e","n","t">>,
      <<"n","o","t","e">>,
      <<"b","i","o">>,
      <<"s","u","m","m","a","r","y">>,
      <<"c","o","n","t","e","n","t">>,
      <<"b","o","d","y">>,
      <<"m","e","s","s","a","g","e">>,
      <<"d","e","t","a","i","l">> }

DocumentedWords ==
    { <<"e","m","a","i","l">>,
      <<"u","r","l">>,
      <<"w","e","b","s","i","t","e">>,
      <<"p","h","o","n","e">>,
      <<"d","e","s","c","r","i","p","t","i","o","n">>,
      <<"c","o","m","m","e","n","t">>,
      <<"n","o","t","e">>,
      <<"b","i","o">>,
      <<"s","u","m","m","a","r","y">>,
      <<"c","o","n","t","e","n","t">>,
      <<"b","o","d","y">>,
      <<"m","e","s","s","a","g","e">>,
      <<"d","e","t","a","i","l">> }

CurrencyWords ==
    { <<"p","r","i","c","e">>,
      <<"c","o","s","t">>,
      <<"a","m","o","u","n","t">>,
      <<"f","e","e">>,
      <<"s","a","l","a","r","y">>,
      <<"w","a","g","e">>,
      <<"r","e","v","e","n","u","e">>,
      <<"b","u","d","g","e","t">>,
      <<"p","a","y","m","e","n","t">> }

PercentWords ==
    { <<"p","e","r","c","e","n","t">>,
      <<"p","e","r","c","e","n","t","a","g","e">>,
      <<"r","a","t","e">>,
      <<"r","a","t","i","o">> }

\* C1: whenever resolve_field_type is given an explicit_type it returns exactly
\* that type, whatever the field name, the declared type and the metadata.
ExplicitTypeWins ==
    resolve_call.called /\ resolve_call.explicit_type # None
        => resolve_result = resolve_call.explicit_type

\* an explicit FORMULA on a str field named email whose declaration says URL
WitnessExplicitTypeWins ==
    /\ resolve_call.called
    /\ resolve_call.explicit_type = FORMULA
    /\ resolve_call.field_name = S_email
    /\ resolve_call.python_type = Cls("str")
    /\ ~NoTypeMetadata(resolve_call.field_info)
    /\ resolve_call.field_info.json_schema_extra.d["airtable_field_type"] = URL
    /\ resolve_result = FORMULA

\* C2: every resolve_field_type call returns a member of AirTableFieldType,
\* never None, also for a field declared with AirTableField(...) or
\* airtable_field(...) without a field type.
ResolveReturnsFieldType ==
    resolve_call.called => resolve_result \in AirTableFieldType

\* C3 as stated: a string field without override or type metadata is EMAIL
\* when named *_email or email*, URL when named *_url or website*, PHONE when
\* the name contains phone, LONG_TEXT when named description, notes or bio.
NameFormSelectsType ==
    PlainCall /\ resolve_call.python_type \in StringTypes =>
        LET n == lower(resolve_call.field_name)
        IN  /\ IsEmailForm(n) => resolve_result = EMAIL
            /\ IsUrlForm(n) => resolve_result = URL
            /\ IsPhoneForm(n) => resolve_result = PHONE
            /\ IsLongTextName(n) => resolve_result = LONG_TEXT

\* C3 amended: the groups are tried in the order email, url, phone, long text,
\* so the url form selects URL only when the name contains no email pattern,
\* and the phone form selects PHONE only when the name contains no email and
\* no url pattern.
NameFormSelectsTypeInOrder ==
    PlainCall /\ resolve_call.python_type \in StringTypes =>
        LET n == lower(resolve_call.field_name)
        IN  /\ IsEmailForm(n) => resolve_result = EMAIL
            /\ IsUrlForm(n) /\ ~ContainsAny(EmailWords, n) => resolve_result = URL
            /\ IsPhoneForm(n) /\ ~ContainsAny(EmailWords \cup UrlWords, n)
                   => resolve_result = PHONE
            /\ IsLongTextName(n) => resolve_result = LONG_TEXT

\* a str field named phone_url resolves to URL
WitnessNameFormSelectsTypeInOrder ==
    /\ PlainCall
    /\ resolve_call.python_type = Cls("str")
    /\ resolve_call.field_name = S_phone_url
    /\ resolve_result = URL

\* C4 as stated: a string field without override or type metadata whose name
\* contains none of the documented words resolves to SINGLE_LINE_TEXT.
UndocumentedNameIsSingleLine ==
    /\ PlainCall
    /\ resolve_call.python_type \in StringTypes
    /\ ~ContainsAny(DocumentedWords, lower(resolve_call.field_name))
    => resolve_result = SINGLE_LINE_TEXT

\* C4 amended: the name groups are those of the resolver's pattern lists
\* (email, e_mail, mail, contact; url, link, website, site, href; phone, tel,
\* mobile, cell; the long-text names); a string field whose lower-cased name
\* contains none of them resolves to SINGLE_LINE_TEXT.
UnmatchedNameIsSingleLine ==
    /\ PlainCall
    /\ resolve_call.python_type \in StringTypes
    /\ ~ContainsAny(EmailWords \cup UrlWords \cup PhoneWords \cup LongTextWords,
                    lower(resolve_call.field_name))
    => resolve_result = SINGLE_LINE_TEXT

\* an Optional[str] field named title falls through to SINGLE_LINE_TEXT
WitnessUnmatchedNameIsSingleLine ==
    /\ PlainCall
    /\ resolve_call.python_type = Optional(Cls("str"))
    /\ resolve_call.field_name = S_title
    /\ resolve_result = SINGLE_LINE_TEXT

\* the default Airtable type the documentation gives each base Python type
DocumentedDefault(c) ==
    CASE c = "str" -> SINGLE_LINE_TEXT
      [] c \in {"int", "float"} -> NUMBER
      [] c = "bool" -> CHECKBOX
      [] c = "datetime" -> DATETIME
      [] c = "date" -> DATE
      [] c = "list" -> MULTI_SELECT
      [] c \in EnumClasses -> SELECT
      [] c = "timedelta" -> DURATION

\* C5: with no explicit type, no type metadata and no name-pattern match, a
\* field of base type str, int, float, bool, datetime, date, list, an Enum
\* subclass or timedelta resolves to that type's documented default.
BaseTypeDefault ==
    LET n == lower(resolve_call.field_name)
        c == resolve_call.python_type.name
    IN  /\ PlainCall
        /\ resolve_call.python_type.k = "cls"
        /\ c \in {"str", "int", "float", "bool", "datetime", "date", "list", "timedelta"}
                 \cup EnumClasses
        /\ ~ContainsAny(EmailWords \cup UrlWords \cup PhoneWords \cup LongTextWords, n)
        /\ ~ContainsAny(CurrencyWords \cup PercentWords, n)
        => resolve_result = DocumentedDefault(c)

GroupWords == <<EmailWords, UrlWords, PhoneWords, LongTextWords>>

GroupTypes == <<EMAIL, URL, PHONE, LONG_TEXT>>

\* the groups of which a pattern occurs in the lower-cased name
GroupsMatched(field_name) ==
    {g \in DOMAIN GroupWords : ContainsAny(GroupWords[g], lower(field_name))}

\* C19: the name-pattern groups are tried in the order email, url, phone,
\* long text and the first that matches decides: a string field (no explicit
\* type, no type metadata) whose lower-cased name matches patterns of one or
\* several groups gets the type of the earliest of these groups.
FirstGroupWins ==
    PlainCall /\ resolve_call.python_type \in StringTypes =>
        LET matched == GroupsMatched(resolve_call.field_name)
        IN  matched # {} =>
                resolve_result
                    = GroupTypes[CHOOSE g \in matched : \A h \in matched : g <= h]

\* a str field whose name matches the phone group and the long-text group,
\* and no other, is PHONE
WitnessFirstGroupWins ==
    /\ PlainCall
    /\ resolve_call.python_type = Cls("str")
    /\ GroupsMatched(resolve_call.field_name) = {3, 4}
    /\ resolve_result = PHONE

\* the upper-case letter of each lower-case letter
UpperOf == [c \in {LowerChars[i] : i \in 1..Len(LowerChars)} |->
               UpperChars[CHOOSE i \in 1..Len(LowerChars) : LowerChars[i] = c]]

\* str.upper()
upper(s) == [i \in 1..Len(s) |-> IF s[i] \in DOMAIN UpperOf THEN UpperOf[s[i]] ELSE s[i]]

\* str.swapcase()
swapcase(s) ==
    [i \in 1..Len(s) |-> IF s[i] \in DOMAIN UpperOf THEN UpperOf[s[i]] ELSE lower_char(s[i])]

\* str.capitalize()
capitalize(s) == [i \in 1..Len(s) |-> IF i = 1 THEN upper(s)[i] ELSE lower_char(s[i])]

\* other casings of a name: all upper, all lower, case swapped, capitalized
Casings(s) == {upper(s), lower(s), swapcase(s), capitalize(s)}

\* C20: detection is case-insensitive: whatever the declared type, the
\* metadata and the explicit type, resolve_field_type returns for every other
\* casing of the field name the type it returned for the name.
CaseInsensitiveDetection ==
    resolve_call.called =>
        \A name \in Casings(resolve_call.field_name) :
            resolve_field_type(name, resolve_call.python_type,
                               resolve_call.field_info, resolve_call.explicit_type)
                = resolve_result

\* a str field named HomePhone is PHONE
WitnessCaseInsensitiveDetection ==
    /\ PlainCall
    /\ resolve_call.python_type = Cls("str")
    /\ resolve_call.field_name = <<"H","o","m","e","P","h","o","n","e">>
    /\ resolve_result = PHONE

\* the type stored under 'airtable_field_type' in the declaration's metadata
MetadataType(fi) == fi.json_schema_extra.d["airtable_field_type"]

\* C21: with no explicit type, a field type attached to the declaration's
\* metadata (json_schema_extra['airtable_field_type']) is what
\* resolve_field_type returns, whatever the field name and the declared type
\* would select.
MetadataTypeWins ==
    /\ resolve_call.called
    /\ resolve_call.explicit_type = None
    /\ ~NoTypeMetadata(resolve_call.field_info)
    => resolve_result = MetadataType(resolve_call.field_info)

\* a str field named email declared with airtable_field(field_type=URL): the
\* name says EMAIL, the metadata wins
WitnessMetadataTypeWins ==
    /\ resolve_call.called
    /\ resolve_call.explicit_type = None
    /\ resolve_call.field_name = S_email
    /\ resolve_call.python_type = Cls("str")
    /\ resolve_call.field_info = airtable_field(URL, None, "False", None, NoExtra)
    /\ resolve_result = URL

\* Optional[T], written Optional[T], Union[T, None] or Union[None, T]
IsOptionalOf(python_type, T) ==
    python_type \in {Optional(T), Union(NoneType, T)}

TextTypes == {EMAIL, URL, PHONE, LONG_TEXT}

\* C22: Optional is transparent: a call on Optional[T] returns what
\* resolve_field_type returns for T with the same name, metadata and explicit
\* type; and a field whose unwrapped type is not str, with no explicit type
\* and no type metadata, is never EMAIL, URL, PHONE or LONG_TEXT.
OptionalTransparent ==
    resolve_call.called =>
        /\ \A T \in PythonTypes :
              IsOptionalOf(resolve_call.python_type, T) =>
                  resolve_result = resolve_field_type(resolve_call.field_name, T,
                                                      resolve_call.field_info,
                                                      resolve_call.explicit_type)
        /\ PlainCall /\ _extract_base_type(resolve_call.python_type) # Cls("str")
              => resolve_result \notin TextTypes

\* an Optional[str] named email is EMAIL, as a str named email is
WitnessOptionalTransparent ==
    /\ PlainCall
    /\ resolve_call.python_type = Optional(Cls("str"))
    /\ resolve_call.field_name = S_email
    /\ resolve_result = EMAIL
    /\ resolve_field_type(S_email, Cls("str"), resolve_call.field_info, None) = EMAIL

\* ------------------------------------------------------------------------
\* Python values of the value converters
\*   [t |-> "None"]                                   None
\*   [t |-> "str", s]                                 a str, s its characters
\*   [t |-> "int", n]   [t |-> "bool", b]             an int, a bool
\*   [t |-> "float", milli]                           the float milli / 1000
\*   [t |-> "date", y, mo, d]                         datetime.date
\*   [t |-> "datetime", y, mo, d, h, mi, sec, us, aware, off]
\*                                                    datetime.datetime, off the
\*                                                    UTC offset in minutes
\*   [t |-> "timedelta", us]                          datetime.timedelta, in microseconds
\*   [t |-> "raise", exc]                             the call raised exc
\* ------------------------------------------------------------------------
PyNone == [t |-> "None"]

PyStr(s) == [t |-> "str", s |-> s]

PyInt(n) == [t |-> "int", n |-> n]

PyBool(b) == [t |-> "bool", b |-> b]

PyFloat(milli) == [t |-> "float", milli |-> milli]

PyDate(y, mo, d) == [t |-> "date", y |-> y, mo |-> mo, d |-> d]

PyDateTime(y, mo, d, h, mi, sec, us, aware, off) ==
    [t |-> "datetime", y |-> y, mo |-> mo, d |-> d, h |-> h, mi |-> mi,
     sec |-> sec, us |-> us, aware |-> aware, off |-> off]

PyTimedelta(us) == [t |-> "timedelta", us |-> us]

Raise(exc) == [t |-> "raise", exc |-> exc]

\* ------------------------------------------------------------------------
\* Digits, padding and the calendar
\* ------------------------------------------------------------------------
DigitChars == <<"0","1","2","3","4","5","6","7","8","9">>

DigitVal == [c \in {DigitChars[i] : i \in 1..Len(DigitChars)} |->
                (CHOOSE i \in 1..Len(DigitChars) : DigitChars[i] = c) - 1]

IsDigit(c) == c \in DOMAIN DigitVal

AllDigits(s) == \A i \in 1..Len(s) : IsDigit(s[i])

\* int(s) of a string of decimal digits
RECURSIVE DigitsToInt(_)
DigitsToInt(s) ==
    IF Len(s) = 0 THEN 0
    ELSE 10 * DigitsToInt(SubSeq(s, 1, Len(s) - 1)) + DigitVal[s[Len(s)]]

\* the decimal digits of n >= 0, zero-padded to at least width characters (%0<width>d)
RECURSIVE ZeroPad(_, _)
ZeroPad(n, width) ==
    IF n < 10 /\ width <= 1 THEN <<DigitChars[n + 1]>>
    ELSE ZeroPad(n \div 10, width - 1) \o <<DigitChars[(n % 10) + 1]>>

\* int(x) of the quotient a / b, b > 0: truncation toward zero
TruncDiv(a, b) == IF a >= 0 THEN a \div b ELSE -((-a) \div b)

IsLeapYear(y) == (y % 4 = 0 /\ y % 100 # 0) \/ y % 400 = 0

DaysInMonth(y, mo) ==
    IF mo = 2 THEN (IF IsLeapYear(y) THEN 29 ELSE 28)
    ELSE IF mo \in {4, 6, 9, 11} THEN 30
    ELSE 31

\* the date constructor accepts these fields
ValidDate(y, mo, d) ==
    /\ y \in 1..9999
    /\ mo \in 1..12
    /\ d >= 1 /\ d <= DaysInMonth(y, mo)

\* ------------------------------------------------------------------------
\* datetime.strptime(value, "%Y-%m-%d").date() and strftime("%Y-%m-%d")
\* ------------------------------------------------------------------------
\* %m: 1[0-2]|0[1-9]|[1-9]
MonthToken(s) ==
    \/ Len(s) = 1 /\ IsDigit(s[1]) /\ s[1] # "0"
    \/ Len(s) = 2 /\ s[1] = "1" /\ s[2] \in {"0", "1", "2"}
    \/ Len(s) = 2 /\ s[1] = "0" /\ IsDigit(s[2]) /\ s[2] # "0"

\* %d: 3[0-1]|[1-2]\d|0[1-9]|[1-9]| [1-9]
DayToken(s) ==
    \/ Len(s) = 1 /\ IsDigit(s[1]) /\ s[1] # "0"
    \/ Len(s) = 2 /\ s[1] = "3" /\ s[2] \in {"0", "1"}
    \/ Len(s) = 2 /\ s[1] \in {"1", "2"} /\ IsDigit(s[2])
    \/ Len(s) = 2 /\ s[1] \in {"0", " "} /\ IsDigit(s[2]) /\ s[2] # "0"

\* int() of a %d token, whose leading space is not a digit
TokenToInt(s) == IF s[1] = " " THEN DigitsToInt(Tail(s)) ELSE DigitsToInt(s)

\* the month token is the 1 or 2 characters after "YYYY-" that end at a "-"
MonthLen(s) ==
    IF Len(s) >= 7 /\ s[7] = "-" THEN 1
    ELSE IF Len(s) >= 8 /\ s[8] = "-" THEN 2
    ELSE 0

strptime_date(s) ==
    LET ml == MonthLen(s)
        year == SubSeq(s, 1, 4)
        month == SubSeq(s, 6, 5 + ml)
        day == SubSeq(s, 7 + ml, Len(s))
    IN  IF /\ Len(s) >= 8
           /\ AllDigits(year)
           /\ s[5] = "-"
           /\ ml > 0
           /\ MonthToken(month)
           /\ DayToken(day)
           /\ ValidDate(DigitsToInt(year), DigitsToInt(month), TokenToInt(day))
        THEN PyDate(DigitsToInt(year), DigitsToInt(month), TokenToInt(day))
        ELSE Raise("ValueError")

\* value.strftime("%Y-%m-%d") of a date or a datetime of the years 1000 to 9999
\* (how %Y writes a smaller year depends on the platform's C library)
strftime_date(v) ==
    ZeroPad(v.y, 4) \o <<"-">> \o ZeroPad(v.mo, 2) \o <<"-">> \o ZeroPad(v.d, 2)

\* ------------------------------------------------------------------------
\* datetime.fromisoformat and datetime.isoformat, for the strings
\*   YYYY-MM-DD[*HH:MM[:SS[.fff[fff]]][(+|-)HH:MM]]
\* any other string is not an ISO format string (ValueError)
\* ------------------------------------------------------------------------
\* value.replace('Z', '+00:00')
RECURSIVE replace_Z(_)
replace_Z(s) ==
    IF Len(s) = 0 THEN s
    ELSE IF Head(s) = "Z" THEN <<"+","0","0",":","0","0">> \o replace_Z(Tail(s))
    ELSE <<Head(s)>> \o replace_Z(Tail(s))

\* the position of the first "+" or "-" of s, 0 when there is none
FirstSign(s) ==
    IF \E i \in 1..Len(s) : s[i] \in {"+", "-"}
    THEN CHOOSE i \in 1..Len(s) :
             /\ s[i] \in {"+", "-"}
             /\ \A j \in 1..(i - 1) : s[j] \notin {"+", "-"}
    ELSE 0

\* YYYY-MM-DD
IsoDateShape(s) ==
    /\ Len(s) = 10
    /\ AllDigits(SubSeq(s, 1, 4)) /\ s[5] = "-"
    /\ AllDigits(SubSeq(s, 6, 7)) /\ s[8] = "-"
    /\ AllDigits(SubSeq(s, 9, 10))

\* HH:MM[:SS[.fff[fff]]]
IsoTimeShape(s) ==
    /\ Len(s) \in {5, 8, 12, 15}
    /\ AllDigits(SubSeq(s, 1, 2)) /\ s[3] = ":" /\ AllDigits(SubSeq(s, 4, 5))
    /\ Len(s) >= 8 => s[6] = ":" /\ AllDigits(SubSeq(s, 7, 8))
    /\ Len(s) >= 12 => s[9] = "." /\ AllDigits(SubSeq(s, 10, Len(s)))

\* (+|-)HH:MM
IsoOffsetShape(s) ==
    /\ Len(s) = 6
    /\ s[1] \in {"+", "-"}
    /\ AllDigits(SubSeq(s, 2, 3)) /\ s[4] = ":" /\ AllDigits(SubSeq(s, 5, 6))

fromisoformat(s) ==
    LET date_part == SubSeq(s, 1, 10)
        rest == SubSeq(s, 12, Len(s))
        sign == FirstSign(rest)
        time_part == IF sign = 0 THEN rest ELSE SubSeq(rest, 1, sign - 1)
        tz_part == IF sign = 0 THEN <<>> ELSE SubSeq(rest, sign, Len(rest))
        has_time == Len(s) > 10
        y == DigitsToInt(SubSeq(date_part, 1, 4))
        mo == DigitsToInt(SubSeq(date_part, 6, 7))
        d == DigitsToInt(SubSeq(date_part, 9, 10))
        h == IF has_time THEN DigitsToInt(SubSeq(time_part, 1, 2)) ELSE 0
        mi == IF has_time THEN DigitsToInt(SubSeq(time_part, 4, 5)) ELSE 0
        sec == IF has_time /\ Len(time_part) >= 8
               THEN DigitsToInt(SubSeq(time_part, 7, 8)) ELSE 0
        us == IF has_time /\ Len(time_part) = 12
              THEN 1000 * DigitsToInt(SubSeq(time_part, 10, 12))
              ELSE IF has_time /\ Len(time_part) = 15
              THEN DigitsToInt(SubSeq(time_part, 10, 15))
              ELSE 0
        tz_h == DigitsToInt(SubSeq(tz_part, 2, 3))
        tz_m == DigitsToInt(SubSeq(tz_part, 5, 6))
        off == IF sign = 0 THEN 0
               ELSE IF tz_part[1] = "-" THEN -(60 * tz_h + tz_m)
               ELSE 60 * tz_h + tz_m
    IN  IF /\ Len(s) >= 10
           /\ IsoDateShape(date_part)
           /\ has_time => /\ Len(s) >= 12
                          /\ IsoTimeShape(time_part)
                          /\ sign # 0 => IsoOffsetShape(tz_part)
           /\ ValidDate(y, mo, d)
           /\ h <= 23 /\ mi <= 59 /\ sec <= 59
           /\ sign # 0 => tz_h <= 23 /\ tz_m <= 59
        THEN PyDateTime(y, mo, d, h, mi, sec, us, has_time /\ sign # 0, off)
        ELSE Raise("ValueError")

\* isoformat that leaves out the UTC offset of an aware datetime
isoformat_without_offset(v) ==
    strftime_date(v) \o <<"T">>
    \o ZeroPad(v.h, 2) \o <<":">> \o ZeroPad(v.mi, 2) \o <<":">> \o ZeroPad(v.sec, 2)
    \o (IF v.us # 0 THEN <<".">> \o ZeroPad(v.us, 6) ELSE <<>>)

\* value.isoformat() of a datetime
isoformat(v) ==
    LET abs_off == IF v.off < 0 THEN -v.off ELSE v.off
    IN  strftime_date(v) \o <<"T">>
        \o ZeroPad(v.h, 2) \o <<":">> \o ZeroPad(v.mi, 2) \o <<":">> \o ZeroPad(v.sec, 2)
        \o (IF v.us # 0 THEN <<".">> \o ZeroPad(v.us, 6) ELSE <<>>)
        \o (IF v.aware
            THEN <<IF v.off < 0 THEN "-" ELSE "+">>
                 \o ZeroPad(abs_off \div 60, 2) \o <<":">> \o ZeroPad(abs_off % 60, 2)
            ELSE <<>>)

\* ------------------------------------------------------------------------
\* fields.py: TypeMapper
\* ------------------------------------------------------------------------
\* bool(value)
py_bool(value) ==
    CASE value.t = "None" -> FALSE
      [] value.t = "bool" -> value.b
      [] value.t = "int" -> value.n # 0
      [] value.t = "float" -> value.milli # 0
      [] value.t = "str" -> Len(value.s) > 0
      [] value.t = "timedelta" -> value.us # 0
      [] OTHER -> TRUE

\* int(value) of an int, a bool or a float
py_int(value) ==
    CASE value.t = "int" -> value.n
      [] value.t = "bool" -> (IF value.b THEN 1 ELSE 0)
      [] value.t = "float" -> TruncDiv(value.milli, 1000)

\* float(value)
py_float(value) ==
    CASE value.t = "int" -> PyFloat(1000 * value.n)
      [] value.t = "float" -> value
      [] value.t = "str" -> (IF Len(value.s) > 0 /\ AllDigits(value.s)
                             THEN PyFloat(1000 * DigitsToInt(value.s))
                             ELSE Raise("ValueError"))
      [] OTHER -> Raise("TypeError")

\* timedelta(seconds=value) of an int, a bool or a float
timedelta_seconds(value) ==
    CASE value.t = "int" -> PyTimedelta(1000000 * value.n)
      [] value.t = "bool" -> PyTimedelta(IF value.b THEN 1000000 ELSE 0)
      [] value.t = "float" -> PyTimedelta(1000 * value.milli)

\* int(value.total_seconds()) of a timedelta
total_seconds_int(value) == TruncDiv(value.us, 1000000)

format_value_for_airtable(value, field_type) ==
    IF value.t = "None" THEN PyNone
    ELSE IF field_type = DATETIME /\ value.t = "datetime" THEN PyStr(isoformat(value))
    ELSE IF field_type = DATE /\ value.t \in {"datetime", "date"}
    THEN PyStr(strftime_date(value))
    ELSE IF field_type = DURATION /\ value.t = "timedelta"
    THEN PyInt(total_seconds_int(value))
    ELSE IF field_type = DURATION /\ value.t \in {"int", "float", "bool"}
    THEN PyInt(py_int(value))
    ELSE IF field_type = CHECKBOX THEN PyBool(py_bool(value))
    ELSE IF field_type \in {NUMBER, CURRENCY, PERCENT}
    THEN (IF value.t = "bool" THEN value ELSE py_float(value))
    ELSE value

\* parse_value_from_airtable without the try/except around the date parsers
parse_value_from_airtable_uncaught(value, field_type) ==
    IF value.t = "None" THEN PyNone
    ELSE IF field_type = DATETIME /\ value.t = "str"
    THEN fromisoformat(replace_Z(value.s))
    ELSE IF field_type = DATE /\ value.t = "str"
    THEN strptime_date(value.s)
    ELSE IF field_type = DURATION /\ value.t \in {"int", "float", "bool"}
    THEN timedelta_seconds(value)
    ELSE IF field_type = CHECKBOX THEN PyBool(py_bool(value))
    ELSE value

parse_value_from_airtable(value, field_type) ==
    IF value.t = "None" THEN PyNone
    ELSE IF field_type = DATETIME /\ value.t = "str"
    THEN LET parsed == fromisoformat(replace_Z(value.s))
         IN  IF parsed.t = "raise" /\ parsed.exc = "ValueError" THEN value ELSE parsed
    ELSE IF field_type = DATE /\ value.t = "str"
    THEN LET parsed == strptime_date(value.s)
         IN  IF parsed.t = "raise" /\ parsed.exc = "ValueError" THEN value ELSE parsed
    ELSE IF field_type = DURATION /\ value.t \in {"int", "float", "bool"}
    THEN timedelta_seconds(value)
    ELSE IF field_type = CHECKBOX THEN PyBool(py_bool(value))
    ELSE value

\* ------------------------------------------------------------------------
\* Inputs of the value converters
\* ------------------------------------------------------------------------
\* the largest duration, in seconds, of the inputs
MaxSeconds == 3

DateText(y, mo, d) ==
    ZeroPad(y, 4) \o <<"-">> \o ZeroPad(mo, 2) \o <<"-">> \o ZeroPad(d, 2)

\* zero-padded YYYY-MM-DD strings, some of them not dates of the calendar
PaddedDateStrings ==
    { DateText(y, mo, d) : y \in {1999, 2024}, mo \in {1, 2, 12}, d \in {1, 29, 30, 31} }

OddDateStrings ==
    { <<"2","0","2","4","-","1","-","5">>,
      <<"2","0","2","4","-","1","2","-"," ","5">>,
      <<"2","0","2","4","-","1","3","-","0","1">>,
      <<"2","0","2","4","/","0","1","/","0","5">>,
      <<"0","5","-","0","1","-","2","0","2","4">>,
      <<"Z","e","b","r","a">>,
      <<>> }

TimeTexts ==
    { <<"0","0",":","0","0",":","0","0">>,
      <<"1","0",":","3","0",":","5","9">>,
      <<"2","4",":","0","0",":","0","0">> }

FractionTexts ==
    { <<>>,
      <<".","0","0","0">>,
      <<".","5","0","0">>,
      <<".","0","0","0","0","0","1">> }

ZoneTexts ==
    { <<>>,
      <<"Z">>,
      <<"+","0","0",":","0","0">>,
      <<"-","0","0",":","0","0">>,
      <<"+","0","5",":","3","0">>,
      <<"-","0","8",":","0","0">> }

SeparatorTexts ==
    { <<"T">>,
      <<" ">> }

DateTimeDates == { DateText(2024, 1, 5), DateText(2024, 2, 29), DateText(1999, 2, 29) }

WireDateTimeStrings ==
    { d \o sep \o tm \o fr \o z :
        d \in DateTimeDates, sep \in SeparatorTexts, tm \in TimeTexts,
        fr \in FractionTexts, z \in ZoneTexts }
    \cup { d \o <<"T","2","3",":","5","9">> \o z : d \in DateTimeDates, z \in ZoneTexts }

WireStrings == PaddedDateStrings \cup OddDateStrings \cup WireDateTimeStrings

\* what the Airtable API can hand to parse_value_from_airtable
WireValues ==
    { PyStr(s) : s \in WireStrings }
    \cup { PyInt(n) : n \in (-MaxSeconds)..MaxSeconds }
    \cup { PyFloat(m) : m \in {-1500, 500, 1500} }
    \cup { PyBool(b) : b \in BOOLEAN }
    \cup { PyNone }

PyDates == { PyDate(y, mo, d) : y \in {1999, 2024}, mo \in {2, 12}, d \in {1, 28} }

PyDateTimes ==
    { PyDateTime(dt.y, dt.mo, dt.d, tm[1], tm[2], tm[3], us, z[1], z[2]) :
        dt \in { PyDate(2024, 1, 5), PyDate(2024, 2, 29), PyDate(1999, 12, 31) },
        tm \in { <<0, 0, 0>>, <<10, 30, 59>> },
        us \in { 0, 1, 500000 },
        z \in { <<FALSE, 0>>, <<TRUE, 0>>, <<TRUE, 330>>, <<TRUE, -480>> } }

\* timedeltas in steps of half a second
PyTimedeltas == { PyTimedelta(500000 * k) : k \in (-2 * MaxSeconds)..(2 * MaxSeconds) }

\* what a model instance can hand to format_value_for_airtable
PyValues ==
    PyDates \cup PyDateTimes \cup PyTimedeltas
    \cup { PyInt(n) : n \in (-MaxSeconds)..MaxSeconds }
    \cup { PyFloat(m) : m \in {-1500, 500, 1500} }
    \cup { PyBool(b) : b \in BOOLEAN }
    \cup { PyStr(s) : s \in OddDateStrings \cup {<<"4","2">>} }
    \cup { PyNone }

MapperFieldTypes == {DATETIME, DATE, DURATION, CHECKBOX, NUMBER, SINGLE_LINE_TEXT}

\* ------------------------------------------------------------------------
\* The value converters: one converter call, then the other on its result
\* ------------------------------------------------------------------------
InitMapper ==
    /\ ResolverIdle
    /\ MapperIdle
    /\ ConfigIdle
    /\ ManagerIdle
    /\ BindingIdle
    /\ ExamplesIdle

\* TypeMapper.parse_value_from_airtable(value, field_type) on a wire value
ParseValue ==
    /\ map_op = "idle"
    /\ \E value \in WireValues, field_type \in MapperFieldTypes :
        /\ map_in' = value
        /\ map_field_type' = field_type
        /\ map_mid' = parse_value_from_airtable(value, field_type)
    /\ map_op' = "parsed"
    /\ UNCHANGED <<map_out, resolver_vars, config_vars, manager_vars, binding_vars, examples_vars>>

\* TypeMapper.format_value_for_airtable on what parse_value_from_airtable returned
FormatParsed ==
    /\ map_op = "parsed"
    /\ map_mid.t # "raise"
    /\ map_out' = format_value_for_airtable(map_mid, map_field_type)
    /\ map_op' = "parsed_formatted"
    /\ UNCHANGED <<map_field_type, map_in, map_mid, resolver_vars, config_vars, manager_vars, binding_vars, examples_vars>>

\* TypeMapper.format_value_for_airtable(value, field_type) on a Python value
FormatValue ==
    /\ map_op = "idle"
    /\ \E value \in PyValues, field_type \in MapperFieldTypes :
        /\ map_in' = value
        /\ map_field_type' = field_type
        /\ map_mid' = format_value_for_airtable(value, field_type)
    /\ map_op' = "formatted"
    /\ UNCHANGED <<map_out, resolver_vars, config_vars, manager_vars, binding_vars, examples_vars>>

\* TypeMapper.parse_value_from_airtable on what format_value_for_airtable returned
ParseFormatted ==
    /\ map_op = "formatted"
    /\ map_mid.t # "raise"
    /\ map_out' = parse_value_from_airtable(map_mid, map_field_type)
    /\ map_op' = "formatted_parsed"
    /\ UNCHANGED <<map_field_type, map_in, map_mid, resolver_vars, config_vars, manager_vars, binding_vars, examples_vars>>

\* the caller drops the values
MapperReturn ==
    /\ map_op # "idle"
    /\ map_op' = "idle"
    /\ map_field_type' = SINGLE_LINE_TEXT
    /\ map_in' = PyNone
    /\ map_mid' = PyNone
    /\ map_out' = PyNone
    /\ UNCHANGED <<resolver_vars, config_vars, manager_vars, binding_vars, examples_vars>>

NextMapper ==
    \/ ParseValue
    \/ FormatParsed
    \/ FormatValue
    \/ ParseFormatted
    \/ MapperReturn

SpecMapper == InitMapper /\ [][NextMapper]_vars

\* ------------------------------------------------------------------------
\* Properties of the value converters
\* ------------------------------------------------------------------------
\* a == b for two Python values
SameValue(a, b) == a.t = b.t /\ a = b

\* an ISO-8601 date-time string YYYY-MM-DDTHH:MM:SS[.fff[fff]][Z|(+|-)HH:MM]
IsIso8601DateTime(s) ==
    /\ Len(s) >= 19
    /\ s[11] = "T"
    /\ fromisoformat(replace_Z(s)).t = "datetime"

\* an ISO-8601 date-time string written the way isoformat() writes it: "T"
\* separator, seconds, a fraction only if it is six digits and not zero, an
\* offset only as (+|-)HH:MM and not -00:00, never "Z"
IsIsoformatText(s) ==
    /\ IsIso8601DateTime(s)
    /\ \A i \in 1..Len(s) : s[i] # "Z"
    /\ LET rest == SubSeq(s, 20, Len(s))
           sign == FirstSign(rest)
           fraction == IF sign = 0 THEN rest ELSE SubSeq(rest, 1, sign - 1)
           zone == IF sign = 0 THEN <<>> ELSE SubSeq(rest, sign, Len(rest))
       IN  /\ \/ fraction = <<>>
              \/ Len(fraction) = 7 /\ DigitsToInt(SubSeq(fraction, 2, 7)) # 0
           /\ zone # <<"-","0","0",":","0","0">>

\* a date string YYYY-MM-DD, zero-padded, of a date of the calendar
IsPaddedDate(s) == IsoDateShape(s) /\ strptime_date(s).t = "date"

T_aware == <<"2","0","2","4","-","0","1","-","0","5","T","1","0",":","3","0",":","5","9","+","0","5",":","3","0">>

T_zebra == <<"Z","e","b","r","a">>

\* C7 as stated: formatting a parsed value gives back the ISO-8601 date-time
\* string (DATETIME), the YYYY-MM-DD string (DATE), the integer seconds
\* (DURATION); parsing a formatted datetime, date or timedelta gives it back.
ConverterRoundTrip ==
    /\ map_op = "parsed_formatted" =>
        /\ map_field_type = DATETIME /\ map_in.t = "str" /\ IsIso8601DateTime(map_in.s)
               => SameValue(map_out, map_in)
        /\ map_field_type = DATE /\ map_in.t = "str" /\ IsPaddedDate(map_in.s)
               => SameValue(map_out, map_in)
        /\ map_field_type = DURATION /\ map_in.t = "int"
               => SameValue(map_out, map_in)
    /\ map_op = "formatted_parsed" =>
        /\ map_field_type = DATETIME /\ map_in.t = "datetime"
               => SameValue(map_out, map_in)
        /\ map_field_type = DATE /\ map_in.t = "date"
               => SameValue(map_out, map_in)
        /\ map_field_type = DURATION /\ map_in.t = "timedelta"
               => SameValue(map_out, map_in)

\* C7 amended: the string round trip holds for date-time strings in the form
\* isoformat() writes, and the value round trip for timedeltas of a whole
\* number of seconds; dates are those of the years 1000 to 9999, which %Y
\* writes with four digits on every platform; the other cases are as stated.
CanonicalRoundTrip ==
    /\ map_op = "parsed_formatted" =>
        /\ map_field_type = DATETIME /\ map_in.t = "str" /\ IsIsoformatText(map_in.s)
               => SameValue(map_out, map_in)
        /\ map_field_type = DATE /\ map_in.t = "str" /\ IsPaddedDate(map_in.s)
           /\ DigitsToInt(SubSeq(map_in.s, 1, 4)) >= 1000
               => SameValue(map_out, map_in)
        /\ map_field_type = DURATION /\ map_in.t = "int"
               => SameValue(map_out, map_in)
    /\ map_op = "formatted_parsed" =>
        /\ map_field_type = DATETIME /\ map_in.t = "datetime"
               => SameValue(map_out, map_in)
        /\ map_field_type = DATE /\ map_in.t = "date" /\ map_in.y >= 1000
               => SameValue(map_out, map_in)
        /\ map_field_type = DURATION /\ map_in.t = "timedelta"
           /\ map_in.us % 1000000 = 0
               => SameValue(map_out, map_in)

\* 2024-01-05T10:30:59+05:30 was parsed to an aware datetime and formatted back
WitnessCanonicalRoundTrip ==
    /\ map_op = "parsed_formatted"
    /\ map_field_type = DATETIME
    /\ SameValue(map_in, PyStr(T_aware))
    /\ map_mid.t = "datetime" /\ map_mid.aware /\ map_mid.off = 330
    /\ SameValue(map_out, map_in)

\* C8: parse_value_from_airtable never raises on a DATE or DATETIME string; it
\* returns a date (a datetime), or else the very string it was given, and it
\* returns the string whenever the parser rejects it.
MalformedDateReturnedRaw ==
    map_op = "parsed" /\ map_field_type \in {DATE, DATETIME} /\ map_in.t = "str" =>
        /\ map_mid.t # "raise"
        /\ \/ map_mid.t = (IF map_field_type = DATE THEN "date" ELSE "datetime")
           \/ SameValue(map_mid, map_in)
        /\ map_field_type = DATE /\ strptime_date(map_in.s).t = "raise"
               => SameValue(map_mid, map_in)
        /\ map_field_type = DATETIME /\ fromisoformat(replace_Z(map_in.s)).t = "raise"
               => SameValue(map_mid, map_in)

\* the string Zebra under DATETIME comes back as Zebra
WitnessMalformedDateReturnedRaw ==
    /\ map_op = "parsed"
    /\ map_field_type = DATETIME
    /\ SameValue(map_in, PyStr(T_zebra))
    /\ SameValue(map_mid, PyStr(T_zebra))

\* ------------------------------------------------------------------------
\* config.py: AirTableConfig and the process-wide configuration
\*   an operation on the objects returns [configs, exc, ret]: the objects
\*   after the call, the exception raised ("None" when it returned) and the
\*   position of the object returned (0 when it raised)
\* ------------------------------------------------------------------------
S_pat == <<"p","a","t">>

S_app == <<"a","p","p">>

\* a or b
py_or(a, b) == IF py_bool(a) THEN a ELSE b

\* os.getenv(env_prefix + name, default)
getenv(env, env_prefix, name, default) ==
    IF env[env_prefix][name].t = "None" THEN default ELSE env[env_prefix][name]

\* __post_init__ without the base id format check
__post_init___without_base_format(self) ==
    IF ~py_bool(self.access_token) THEN "ConfigurationError"
    ELSE IF ~py_bool(self.base_id) THEN "ConfigurationError"
    ELSE IF ~StartsWith(self.access_token.s, S_pat) THEN "ConfigurationError"
    ELSE "None"

\* AirTableConfig.__post_init__: the exception it raises, "None" when it returns
__post_init__(self) ==
    IF ~py_bool(self.access_token) THEN "ConfigurationError"
    ELSE IF ~py_bool(self.base_id) THEN "ConfigurationError"
    ELSE IF ~StartsWith(self.access_token.s, S_pat) THEN "ConfigurationError"
    ELSE IF ~StartsWith(self.base_id.s, S_app) THEN "ConfigurationError"
    ELSE "None"

\* AirTableConfig(access_token, base_id, table_name): the dataclass __init__
\* assigns the fields and runs __post_init__
AirTableConfig(heap, access_token, base_id, table_name) ==
    LET self == [access_token |-> access_token, base_id |-> base_id,
                 table_name |-> table_name]
        exc == __post_init__(self)
    IN  IF exc # "None"
        THEN [configs |-> heap, exc |-> exc, ret |-> 0]
        ELSE [configs |-> Append(heap, self), exc |-> "None", ret |-> Len(heap) + 1]

\* from_env with each variable of the environment preferred to its override
from_env_environment_first(heap, env, access_token, base_id, table_name, env_prefix) ==
    AirTableConfig(heap,
                   py_or(getenv(env, env_prefix, "ACCESS_TOKEN", PyStr(<<>>)), access_token),
                   py_or(getenv(env, env_prefix, "BASE_ID", PyStr(<<>>)), base_id),
                   py_or(getenv(env, env_prefix, "TABLE_NAME", PyNone), table_name))

\* AirTableConfig.from_env(access_token, base_id, table_name, env_prefix)
from_env(heap, env, access_token, base_id, table_name, env_prefix) ==
    AirTableConfig(heap,
                   py_or(access_token, getenv(env, env_prefix, "ACCESS_TOKEN", PyStr(<<>>))),
                   py_or(base_id, getenv(env, env_prefix, "BASE_ID", PyStr(<<>>))),
                   py_or(table_name, getenv(env, env_prefix, "TABLE_NAME", PyNone)))

\* with_table that renames the table of the config it is called on
with_table_in_place(heap, self, table_name) ==
    [configs |-> [heap EXCEPT ![self].table_name = table_name],
     exc |-> "None", ret |-> self]

\* AirTableConfig.with_table(self, table_name)
with_table(heap, self, table_name) ==
    AirTableConfig(heap, heap[self].access_token, heap[self].base_id, table_name)

\* config.<attr> = value on the dataclass instance
__setattr__(heap, self, attr, value) ==
    [heap EXCEPT ![self] = [@ EXCEPT ![attr] = value]]

\* set_global_config that keeps a configuration already stored
set_global_config_first_wins(slot, config) == IF slot = 0 THEN config ELSE slot

\* set_global_config(config): the new _global_config
set_global_config(slot, config) == config

\* get_global_config that returns whatever the slot holds
get_global_config_unchecked(slot) ==
    [_global_config |-> slot, exc |-> "None", ret |-> slot]

\* get_global_config(): the slot after the call, the exception, the object returned
get_global_config(slot) ==
    IF slot = 0
    THEN [_global_config |-> slot, exc |-> "ConfigurationError", ret |-> 0]
    ELSE [_global_config |-> slot, exc |-> "None", ret |-> slot]

\* configure_from_env that clears the process-wide slot when from_env raises
configure_from_env_clearing(heap, slot, env, access_token, base_id, table_name, env_prefix) ==
    LET r == from_env(heap, env, access_token, base_id, table_name, env_prefix)
    IN  IF r.exc # "None"
        THEN [configs |-> r.configs, _global_config |-> 0, exc |-> r.exc, ret |-> 0]
        ELSE [configs |-> r.configs, _global_config |-> set_global_config(slot, r.ret),
              exc |-> "None", ret |-> r.ret]

\* configure_from_env(**overrides): from_env raises before set_global_config runs
configure_from_env(heap, slot, env, access_token, base_id, table_name, env_prefix) ==
    LET r == from_env(heap, env, access_token, base_id, table_name, env_prefix)
    IN  IF r.exc # "None"
        THEN [configs |-> r.configs, _global_config |-> slot, exc |-> r.exc, ret |-> 0]
        ELSE [configs |-> r.configs, _global_config |-> set_global_config(slot, r.ret),
              exc |-> "None", ret |-> r.ret]

\* ------------------------------------------------------------------------
\* Inputs of config.py
\* ------------------------------------------------------------------------
\* the most AirTableConfig objects alive at a time
MaxConfigs == 2

AccessTokens ==
    { PyNone, PyStr(<<>>), PyStr(<<"p","a">>), PyStr(<<"k","e","y","1">>), PyStr(<<"p","a","t">>), PyStr(<<"p","a","t","1">>) }

BaseIds ==
    { PyNone, PyStr(<<>>), PyStr(<<"a","p">>), PyStr(<<"t","b","l","1">>), PyStr(<<"a","p","p","B">>) }

TableNames ==
    { PyNone, PyStr(<<"U","s","e","r","s">>), PyStr(<<"T","a","s","k","s">>) }

TokenOverrides ==
    { PyNone, PyStr(<<>>), PyStr(<<"k","e","y","1">>), PyStr(<<"p","a","t","1">>) }

BaseOverrides ==
    { PyNone, PyStr(<<"t","b","l","1">>), PyStr(<<"a","p","p","B">>) }

TableOverrides ==
    { PyNone, PyStr(<<>>), PyStr(<<"T","a","s","k","s">>) }

EnvPrefixes == {"AIRTABLE_", "TEST_"}

\* the value a caller assigns to each attribute of an existing config
AssignedValues ==
    [access_token |-> PyStr(<<"k","e","y","1">>),
     base_id |-> PyStr(<<"t","b","l","1">>),
     table_name |-> PyStr(<<"T","a","s","k","s">>)]

EnvVars(token, base, table) == [ACCESS_TOKEN |-> token, BASE_ID |-> base, TABLE_NAME |-> table]

\* the environments a process is started in
Environments ==
    { [p \in EnvPrefixes |->
          IF p = "AIRTABLE_" THEN a ELSE EnvVars(PyStr(<<"k","e","y","1">>), PyNone, PyNone)] :
        a \in { EnvVars(PyNone, PyNone, PyNone),
                EnvVars(PyStr(<<"p","a","t">>), PyStr(<<"a","p","p","B">>), PyStr(<<"U","s","e","r","s">>)),
                EnvVars(PyStr(<<"p","a","t","1">>), PyStr(<<"t","b","l","1">>), PyNone),
                EnvVars(PyStr(<<>>), PyStr(<<"a","p","p","B">>), PyStr(<<>>)) } }

\* ------------------------------------------------------------------------
\* config.py: the calls
\* ------------------------------------------------------------------------
InitConfig ==
    /\ ResolverIdle
    /\ MapperIdle
    /\ ManagerIdle
    /\ BindingIdle
    /\ ExamplesIdle
    /\ configs = <<>>
    /\ _global_config = 0
    /\ environ \in Environments
    /\ cfg_call = NoConfigCall

\* AirTableConfig(access_token=..., base_id=..., table_name=...)
Construct ==
    /\ cfg_call.op = "idle"
    /\ Len(configs) < MaxConfigs
    /\ \E access_token \in AccessTokens, base_id \in BaseIds, table_name \in TableNames :
        LET r == AirTableConfig(configs, access_token, base_id, table_name)
        IN  /\ configs' = r.configs
            /\ cfg_call' = [NoConfigCall EXCEPT !.op = "AirTableConfig",
                               !.access_token = access_token, !.base_id = base_id,
                               !.table_name = table_name, !.before = _global_config,
                               !.exc = r.exc, !.ret = r.ret]
    /\ UNCHANGED <<_global_config, environ, resolver_vars, mapper_vars, manager_vars, binding_vars, examples_vars>>

\* AirTableConfig.from_env(access_token, base_id, table_name, env_prefix)
FromEnv ==
    /\ cfg_call.op = "idle"
    /\ Len(configs) < MaxConfigs
    /\ \E access_token \in TokenOverrides, base_id \in BaseOverrides,
          table_name \in TableOverrides, env_prefix \in EnvPrefixes :
        LET r == from_env(configs, environ, access_token, base_id, table_name, env_prefix)
        IN  /\ configs' = r.configs
            /\ cfg_call' = [NoConfigCall EXCEPT !.op = "from_env",
                               !.access_token = access_token, !.base_id = base_id,
                               !.table_name = table_name, !.env_prefix = env_prefix,
                               !.before = _global_config, !.exc = r.exc, !.ret = r.ret]
    /\ UNCHANGED <<_global_config, environ, resolver_vars, mapper_vars, manager_vars, binding_vars, examples_vars>>

\* config.with_table(table_name)
WithTable ==
    /\ cfg_call.op = "idle"
    /\ Len(configs) < MaxConfigs
    /\ \E self \in DOMAIN configs, table_name \in TableNames :
        LET r == with_table(configs, self, table_name)
        IN  /\ configs' = r.configs
            /\ cfg_call' = [NoConfigCall EXCEPT !.op = "with_table", !.self = self,
                               !.table_name = table_name, !.before = _global_config,
                               !.exc = r.exc, !.ret = r.ret]
    /\ UNCHANGED <<_global_config, environ, resolver_vars, mapper_vars, manager_vars, binding_vars, examples_vars>>

\* set_global_config(config)
SetGlobalConfig ==
    /\ cfg_call.op = "idle"
    /\ \E config \in DOMAIN configs :
        /\ _global_config' = set_global_config(_global_config, config)
        /\ cfg_call' = [NoConfigCall EXCEPT !.op = "set_global_config", !.self = config,
                           !.before = _global_config]
    /\ UNCHANGED <<configs, environ, resolver_vars, mapper_vars, manager_vars, binding_vars, examples_vars>>

\* get_global_config()
GetGlobalConfig ==
    /\ cfg_call.op = "idle"
    /\ LET r == get_global_config(_global_config)
       IN  /\ _global_config' = r._global_config
           /\ cfg_call' = [NoConfigCall EXCEPT !.op = "get_global_config",
                              !.before = _global_config, !.exc = r.exc, !.ret = r.ret]
    /\ UNCHANGED <<configs, environ, resolver_vars, mapper_vars, manager_vars, binding_vars, examples_vars>>

\* configure_from_env(access_token=..., base_id=..., table_name=..., env_prefix=...)
ConfigureFromEnv ==
    /\ cfg_call.op = "idle"
    /\ Len(configs) < MaxConfigs
    /\ \E access_token \in TokenOverrides, base_id \in BaseOverrides,
          table_name \in TableOverrides, env_prefix \in EnvPrefixes :
        LET r == configure_from_env(configs, _global_config, environ,
                                    access_token, base_id, table_name, env_prefix)
        IN  /\ configs' = r.configs
            /\ _global_config' = r._global_config
            /\ cfg_call' = [NoConfigCall EXCEPT !.op = "configure_from_env",
                               !.access_token = access_token, !.base_id = base_id,
                               !.table_name = table_name, !.env_prefix = env_prefix,
                               !.before = _global_config, !.exc = r.exc, !.ret = r.ret]
    /\ UNCHANGED <<environ, resolver_vars, mapper_vars, manager_vars, binding_vars, examples_vars>>

\* config.access_token = value, config.base_id = value, config.table_name = value:
\* the dataclass is not frozen, an assignment stores the value and runs no check
SetAttr ==
    /\ cfg_call.op = "idle"
    /\ \E self \in DOMAIN configs, attr \in DOMAIN AssignedValues :
        /\ configs' = __setattr__(configs, self, attr, AssignedValues[attr])
        /\ cfg_call' = [NoConfigCall EXCEPT !.op = "__setattr__", !.self = self,
                           !.attr = attr, !.before = _global_config]
    /\ UNCHANGED <<_global_config, environ, resolver_vars, mapper_vars, manager_vars, binding_vars, examples_vars>>

\* the call has returned or raised; the caller goes on
ConfigReturn ==
    /\ cfg_call.op # "idle"
    /\ cfg_call' = NoConfigCall
    /\ UNCHANGED <<configs, _global_config, environ, resolver_vars, mapper_vars, manager_vars, binding_vars, examples_vars>>

NextConfig ==
    \/ Construct
    \/ FromEnv
    \/ WithTable
    \/ SetGlobalConfig
    \/ GetGlobalConfig
    \/ ConfigureFromEnv
    \/ SetAttr
    \/ ConfigReturn

SpecConfig == InitConfig /\ [][NextConfig]_vars

\* ------------------------------------------------------------------------
\* Properties of config.py
\* ------------------------------------------------------------------------
\* a credential that is absent (None) or the empty string
MissingCredential(v) == v.t = "None" \/ (v.t = "str" /\ Len(v.s) = 0)

\* the four reasons for which a configuration is rejected
BadCredentials(access_token, base_id) ==
    \/ MissingCredential(access_token)
    \/ MissingCredential(base_id)
    \/ ~StartsWith(access_token.s, S_pat)
    \/ ~StartsWith(base_id.s, S_app)

\* the value from_env uses for a credential: the override, else the variable
CredentialInUse(override, name) ==
    IF ~MissingCredential(override) THEN override
    ELSE environ[cfg_call.env_prefix][name]

HasPrefixes(config) ==
    /\ config.access_token.t = "str" /\ StartsWith(config.access_token.s, S_pat)
    /\ config.base_id.t = "str" /\ StartsWith(config.base_id.s, S_app)

WithTableCopies ==
    [][ cfg_call.op = "idle" /\ cfg_call'.op = "with_table" =>
          LET self == cfg_call'.self
              ret == cfg_call'.ret
          IN  /\ _global_config' = _global_config
              /\ \A c \in DOMAIN configs : c \in DOMAIN configs' /\ configs'[c] = configs[c]
              /\ HasPrefixes(configs[self]) => cfg_call'.exc = "None"
              /\ cfg_call'.exc = "None" =>
                     /\ ret \notin DOMAIN configs
                     /\ ret \in DOMAIN configs'
                     /\ configs'[ret].access_token = configs[self].access_token
                     /\ configs'[ret].base_id = configs[self].base_id
                     /\ SameValue(configs'[ret].table_name, cfg_call'.table_name)
      ]_vars

\* with_table returned a config with another table name than the original's,
\* and the original is the process-wide current configuration
WitnessWithTableCopies ==
    /\ cfg_call.op = "with_table"
    /\ cfg_call.exc = "None"
    /\ cfg_call.ret # cfg_call.self
    /\ _global_config = cfg_call.self
    /\ ~SameValue(configs[cfg_call.ret].table_name, configs[cfg_call.self].table_name)

\* C11: a config is immutable after construction: in every step every
\* existing AirTableConfig keeps its access token, base id and table name,
\* and so keeps the 'pat' token and 'app' base id it was validated with.
ConfigImmutable ==
    [][ \A c \in DOMAIN configs :
           /\ c \in DOMAIN configs'
           /\ configs'[c] = configs[c]
           /\ HasPrefixes(configs'[c])
      ]_vars

\* C12 as claimed: once a configuration is stored in the process-wide slot,
\* the slot keeps that configuration whatever call follows.
GlobalConfigSetOnce ==
    [][ _global_config # 0 => _global_config' = _global_config ]_vars

\* C12: the process-wide slot changes only by set_global_config, which stores
\* the config it is given whether or not one was stored before, and by a
\* configure_from_env that succeeds, which stores the config it created; every
\* other call leaves the slot as it is, and get_global_config returns the
\* config stored last.
GlobalConfigLastStored ==
    [][ /\ cfg_call'.op \notin {"set_global_config", "configure_from_env"} =>
              _global_config' = _global_config
        /\ cfg_call'.op = "set_global_config" => _global_config' = cfg_call'.self
        /\ cfg_call'.op = "configure_from_env" =>
              _global_config' = IF cfg_call'.exc = "None" THEN cfg_call'.ret
                                ELSE _global_config
        /\ cfg_call'.op = "get_global_config" /\ _global_config # 0 =>
              cfg_call'.ret = _global_config
      ]_vars

\* set_global_config was called while another config was stored, and replaced it
WitnessGlobalConfigLastStored ==
    /\ cfg_call.op = "set_global_config"
    /\ cfg_call.before # 0
    /\ cfg_call.before # cfg_call.self
    /\ _global_config = cfg_call.self

\* C13: get_global_config raises ConfigurationError exactly when the
\* process-wide slot holds no configuration; otherwise it returns the stored
\* config object; in both cases the slot is left as it was.
GetGlobalConfigContract ==
    cfg_call.op = "get_global_config" =>
        /\ cfg_call.exc \in {"None", "ConfigurationError"}
        /\ cfg_call.exc = "ConfigurationError" <=> cfg_call.before = 0
        /\ cfg_call.exc = "None" =>
               /\ cfg_call.ret = cfg_call.before
               /\ cfg_call.ret \in DOMAIN configs
        /\ _global_config = cfg_call.before

\* get_global_config returned the second config created, stored by
\* set_global_config or configure_from_env
WitnessGetGlobalConfigContract ==
    /\ cfg_call.op = "get_global_config"
    /\ cfg_call.exc = "None"
    /\ cfg_call.ret = 2
    /\ _global_config = 2

\* the three fields from_env fills, each with its variable and the default
\* os.getenv is given for it
EnvFields == {"access_token", "base_id", "table_name"}

EnvName(f) ==
    CASE f = "access_token" -> "ACCESS_TOKEN"
      [] f = "base_id" -> "BASE_ID"
      [] f = "table_name" -> "TABLE_NAME"

EnvDefault(f) == IF f = "table_name" THEN PyNone ELSE PyStr(<<>>)

\* what the environment of the call gives for field f
EnvValue(f) ==
    IF environ[cfg_call.env_prefix][EnvName(f)].t = "None"
    THEN EnvDefault(f)
    ELSE environ[cfg_call.env_prefix][EnvName(f)]

\* C23 as stated: in the config from_env returns, every field for which an
\* override was passed (anything but None) holds that override; the
\* environment is used only for a field without override.
FromEnvOverrideWins ==
    cfg_call.op = "from_env" /\ cfg_call.exc = "None" =>
        \A f \in EnvFields :
            IF cfg_call[f].t # "None"
            THEN SameValue(configs[cfg_call.ret][f], cfg_call[f])
            ELSE SameValue(configs[cfg_call.ret][f], EnvValue(f))

\* C23: in the config from_env returns, every field for which a non-empty
\* override was passed holds that override, whatever the environment holds;
\* a field for which no override, or an empty one, was passed holds the value
\* of its environment variable (the default when the variable is unset).
FromEnvNonEmptyOverrideWins ==
    cfg_call.op = "from_env" /\ cfg_call.exc = "None" =>
        \A f \in EnvFields :
            IF ~MissingCredential(cfg_call[f])
            THEN SameValue(configs[cfg_call.ret][f], cfg_call[f])
            ELSE SameValue(configs[cfg_call.ret][f], EnvValue(f))

\* from_env(access_token='pat1', table_name='Tasks') where the environment
\* holds the token pat and the table Users returned a config with pat1 and
\* Tasks and the base id of the environment
WitnessFromEnvNonEmptyOverrideWins ==
    /\ cfg_call.op = "from_env"
    /\ cfg_call.exc = "None"
    /\ cfg_call.env_prefix = "AIRTABLE_"
    /\ SameValue(cfg_call.access_token, PyStr(<<"p","a","t","1">>))
    /\ cfg_call.base_id.t = "None"
    /\ SameValue(cfg_call.table_name, PyStr(<<"T","a","s","k","s">>))
    /\ SameValue(environ["AIRTABLE_"].ACCESS_TOKEN, PyStr(<<"p","a","t">>))
    /\ SameValue(environ["AIRTABLE_"].TABLE_NAME, PyStr(<<"U","s","e","r","s">>))
    /\ SameValue(configs[cfg_call.ret].access_token, PyStr(<<"p","a","t","1">>))
    /\ SameValue(configs[cfg_call.ret].base_id, PyStr(<<"a","p","p","B">>))
    /\ SameValue(configs[cfg_call.ret].table_name, PyStr(<<"T","a","s","k","s">>))

\* C24: configure_from_env is all-or-nothing: when it returns, the config it
\* returns is the one in the process-wide slot; otherwise it raised
\* ConfigurationError and the slot holds what it held before the call.
ConfigureFromEnvAllOrNothing ==
    cfg_call.op = "configure_from_env" =>
        /\ cfg_call.exc \in {"None", "ConfigurationError"}
        /\ cfg_call.exc = "None" =>
               /\ cfg_call.ret \in DOMAIN configs
               /\ _global_config = cfg_call.ret
        /\ cfg_call.exc = "ConfigurationError" => _global_config = cfg_call.before

\* configure_from_env raised while a config was stored, and that config is
\* still the stored one
WitnessConfigureFromEnvAllOrNothing ==
    /\ cfg_call.op = "configure_from_env"
    /\ cfg_call.exc = "ConfigurationError"
    /\ cfg_call.before = 1
    /\ _global_config = 1

\* ------------------------------------------------------------------------
\* base_manager.py: BaseManager
\*   a JSON value is tagged: null, a string, a list, or a dict (a function
\*   from its keys); an operation returns [log, exc, ret]: the requests sent
\*   so far, the exception raised (NoExc when it returned) and the value returned
\* ------------------------------------------------------------------------
JNull == [j |-> "null"]

JStr(text) == [j |-> "str", text |-> text]

JList(items) == [j |-> "list", items |-> items]

JDict(d) == [j |-> "dict", d |-> d]

\* bool(value) of a JSON value
json_bool(value) ==
    CASE value.j = "null" -> FALSE
      [] value.j = "str" -> value.text # ""
      [] value.j = "list" -> Len(value.items) > 0
      [] value.j = "dict" -> DOMAIN value.d # {}

\* d.get(key, default)
dict_get(d, key, default) == IF key \in DOMAIN d THEN d[key] ELSE default

META_API_URL == "https://api.airtable.com/v0/meta"

\* the headers of a new requests.Session
DefaultHeaders == ("Accept" :> <<"*/*">>)

\* BaseManager(access_token): the token and the session's headers
BaseManager(access_token) ==
    [access_token |-> access_token,
     session_headers |->
         dict_merge(DefaultHeaders,
                    ("Authorization" :> <<"Bearer ", access_token>>)
                    @@ ("Content-Type" :> <<"application/json">>))]

\* exceptions.py: APIError(message, status_code, response_data)
APIError(message, status_code, response_data) ==
    [type |-> "APIError", message |-> message, status_code |-> status_code,
     response_data |-> IF json_bool(response_data) THEN response_data
                       ELSE JDict(EmptyDict)]

\* response.ok
ok(response) == response.status_code < 400

\* self.session.get / post / delete: the request joins the log with the
\* session's headers
session_request(self, log, method, url, json) ==
    Append(log, [method |-> method, url |-> url,
                 headers |-> self.session_headers, json |-> json])

\* BaseManager._handle_response(response): [exc, ret]
_handle_response(response) ==
    LET data == IF response.is_json THEN response.json
                ELSE JDict("error" :> JDict("message" :> JStr(response.text)))
    IN  IF ~ok(response)
        THEN IF data.j # "dict"
             THEN [exc |-> [type |-> "AttributeError"], ret |-> JNull]
             ELSE LET error == dict_get(data.d, "error", JDict(EmptyDict))
                  IN  IF error.j # "dict"
                      THEN [exc |-> [type |-> "AttributeError"], ret |-> JNull]
                      ELSE [exc |-> APIError(
                                       [error_message |->
                                            dict_get(error.d, "message",
                                                     [j |-> "HTTP", status_code |-> response.status_code]),
                                        status |-> response.status_code],
                                       response.status_code, data),
                            ret |-> JNull]
        ELSE [exc |-> NoExc, ret |-> data]

\* one request, then _handle_response on what came back; a request that the
\* transport fails raises out of the operation
request_and_handle(self, log, method, url, json, outcome) ==
    LET sent == session_request(self, log, method, url, json)
    IN  IF outcome.raises
        THEN [log |-> sent, exc |-> [type |-> "ConnectionError"], ret |-> JNull]
        ELSE LET r == _handle_response(outcome.response)
             IN  [log |-> sent, exc |-> r.exc, ret |-> r.ret]

\* data.get("bases", []) on what _handle_response returned
bases_of(r) ==
    IF r.exc.type # "None" THEN r
    ELSE IF r.ret.j # "dict"
    THEN [log |-> r.log, exc |-> [type |-> "AttributeError"], ret |-> JNull]
    ELSE [log |-> r.log, exc |-> NoExc, ret |-> dict_get(r.ret.d, "bases", JList(<<>>))]

\* list_bases that sends the request again when the first one failed
list_bases_retry(self, log, outcome) ==
    LET first == request_and_handle(self, log, "GET", <<META_API_URL, "/bases">>, JNull, outcome)
    IN  IF first.exc.type # "None"
        THEN bases_of(request_and_handle(self, first.log, "GET",
                                         <<META_API_URL, "/bases">>, JNull, outcome))
        ELSE bases_of(first)

\* BaseManager.list_bases()
list_bases(self, log, outcome) ==
    bases_of(request_and_handle(self, log, "GET", <<META_API_URL, "/bases">>, JNull, outcome))

\* BaseManager.get_base_schema(base_id)
get_base_schema(self, log, base_id, outcome) ==
    request_and_handle(self, log, "GET", <<META_API_URL, "/bases/", base_id, "/tables">>,
                       JNull, outcome)

\* BaseManager.create_base(name, tables, workspace_id)
create_base(self, log, name, tables, workspace_id, outcome) ==
    LET payload == ("name" :> JStr(name)) @@ ("tables" :> tables)
    IN  request_and_handle(self, log, "POST", <<META_API_URL, "/bases">>,
                           IF workspace_id # "None" /\ workspace_id # ""
                           THEN JDict(dict_merge(payload, "workspaceId" :> JStr(workspace_id)))
                           ELSE JDict(payload),
                           outcome)

\* BaseManager.delete_base(base_id)
delete_base(self, log, base_id, outcome) ==
    request_and_handle(self, log, "DELETE", <<META_API_URL, "/bases/", base_id>>,
                       JNull, outcome)

\* the loop of get_base_info over bases[i..]: [exc, ret]
RECURSIVE find_base(_, _, _)
find_base(bases, i, base_id) ==
    IF i > Len(bases)
    THEN [exc |-> APIError(<<"Base ", base_id, " not found">>, 404, JNull), ret |-> JNull]
    ELSE IF bases[i].j # "dict"
    THEN [exc |-> [type |-> "AttributeError"], ret |-> JNull]
    ELSE LET id == dict_get(bases[i].d, "id", JNull)
         IN  IF id.j = "str" /\ id.text = base_id
             THEN [exc |-> NoExc, ret |-> bases[i]]
             ELSE find_base(bases, i + 1, base_id)

\* BaseManager.get_base_info(base_id)
get_base_info(self, log, base_id, outcome) ==
    LET r == list_bases(self, log, outcome)
    IN  IF r.exc.type # "None" THEN r
        ELSE IF r.ret.j = "null"
        THEN [log |-> r.log, exc |-> [type |-> "TypeError"], ret |-> JNull]
        ELSE IF r.ret.j = "list"
        THEN LET found == find_base(r.ret.items, 1, base_id)
             IN  [log |-> r.log, exc |-> found.exc, ret |-> found.ret]
        ELSE IF json_bool(r.ret)
        THEN [log |-> r.log, exc |-> [type |-> "AttributeError"], ret |-> JNull]
        ELSE [log |-> r.log,
              exc |-> APIError(<<"Base ", base_id, " not found">>, 404, JNull),
              ret |-> JNull]

\* ------------------------------------------------------------------------
\* Inputs of base_manager.py
\* ------------------------------------------------------------------------
\* the most requests a session sends
MaxRequests == 2

ManagerTokens == {"pat1", "pat2"}

ManagerBaseIds == {"appA", "appC"}

WorkspaceIds == {"None", "", "wsp1"}

TableConfigs == JList(<<JDict("name" :> JStr("Tasks"))>>)

StatusCodes == {200, 404, 422}

\* the bodies a response carries: JSON values, and text that is not JSON
JsonBodies ==
    { JDict(EmptyDict),
      JDict("bases" :> JList(<<JDict(("id" :> JStr("appA")) @@ ("name" :> JStr("Demo"))),
                               JDict("id" :> JStr("appB"))>>)),
      JDict("bases" :> JNull),
      JDict(("id" :> JStr("appA")) @@ ("deleted" :> JStr("true"))),
      JDict("error" :> JDict(("type" :> JStr("NOT_FOUND")) @@ ("message" :> JStr("Base not found")))),
      JDict("error" :> JDict("type" :> JStr("INVALID_REQUEST"))),
      JDict("error" :> JStr("NOT_FOUND")),
      JList(<<JStr("appA")>>),
      JStr("gateway"),
      JNull }

TextBodies == {"", "<html>Bad Gateway</html>"}

Responses ==
    { [status_code |-> status_code, is_json |-> TRUE, json |-> json, text |-> "json"] :
        status_code \in StatusCodes, json \in JsonBodies }
    \cup
    { [status_code |-> status_code, is_json |-> FALSE, json |-> JNull, text |-> text] :
        status_code \in StatusCodes, text \in TextBodies }

\* what happens to a request: the transport raises, or a response comes back
Outcomes ==
    { [raises |-> FALSE, response |-> response] : response \in Responses }
    \cup
    { [raises |-> TRUE, response |-> [status_code |-> 0, is_json |-> FALSE, json |-> JNull, text |-> ""]] }

\* ------------------------------------------------------------------------
\* base_manager.py: the calls
\* ------------------------------------------------------------------------
InitManager ==
    /\ ResolverIdle
    /\ MapperIdle
    /\ ConfigIdle
    /\ BindingIdle
    /\ ExamplesIdle
    /\ manager \in {BaseManager(access_token) : access_token \in ManagerTokens}
    /\ http_log = <<>>
    /\ mgr_call = NoManagerCall

\* manager._handle_response(response)
HandleResponse ==
    /\ mgr_call.op = "idle"
    /\ \E outcome \in Outcomes :
        /\ ~outcome.raises
        /\ LET r == _handle_response(outcome.response)
           IN  mgr_call' = [NoManagerCall EXCEPT !.op = "_handle_response",
                               !.outcome = outcome, !.exc = r.exc, !.ret = r.ret]
    /\ UNCHANGED <<manager, http_log, resolver_vars, mapper_vars, config_vars, binding_vars, examples_vars>>

\* manager.list_bases()
ListBases ==
    /\ mgr_call.op = "idle"
    /\ Len(http_log) < MaxRequests
    /\ \E outcome \in Outcomes :
        LET r == list_bases(manager, http_log, outcome)
        IN  /\ http_log' = r.log
            /\ mgr_call' = [NoManagerCall EXCEPT !.op = "list_bases",
                               !.outcome = outcome, !.exc = r.exc, !.ret = r.ret]
    /\ UNCHANGED <<manager, resolver_vars, mapper_vars, config_vars, binding_vars, examples_vars>>

\* manager.get_base_schema(base_id)
GetBaseSchema ==
    /\ mgr_call.op = "idle"
    /\ Len(http_log) < MaxRequests
    /\ \E base_id \in ManagerBaseIds, outcome \in Outcomes :
        LET r == get_base_schema(manager, http_log, base_id, outcome)
        IN  /\ http_log' = r.log
            /\ mgr_call' = [NoManagerCall EXCEPT !.op = "get_base_schema", !.base_id = base_id,
                               !.outcome = outcome, !.exc = r.exc, !.ret = r.ret]
    /\ UNCHANGED <<manager, resolver_vars, mapper_vars, config_vars, binding_vars, examples_vars>>

\* manager.create_base(name, tables, workspace_id)
CreateBase ==
    /\ mgr_call.op = "idle"
    /\ Len(http_log) < MaxRequests
    /\ \E workspace_id \in WorkspaceIds, outcome \in Outcomes :
        LET r == create_base(manager, http_log, "Demo", TableConfigs, workspace_id, outcome)
        IN  /\ http_log' = r.log
            /\ mgr_call' = [NoManagerCall EXCEPT !.op = "create_base",
                               !.workspace_id = workspace_id,
                               !.outcome = outcome, !.exc = r.exc, !.ret = r.ret]
    /\ UNCHANGED <<manager, resolver_vars, mapper_vars, config_vars, binding_vars, examples_vars>>

\* manager.delete_base(base_id)
DeleteBase ==
    /\ mgr_call.op = "idle"
    /\ Len(http_log) < MaxRequests
    /\ \E base_id \in ManagerBaseIds, outcome \in Outcomes :
        LET r == delete_base(manager, http_log, base_id, outcome)
        IN  /\ http_log' = r.log
            /\ mgr_call' = [NoManagerCall EXCEPT !.op = "delete_base", !.base_id = base_id,
                               !.outcome = outcome, !.exc = r.exc, !.ret = r.ret]
    /\ UNCHANGED <<manager, resolver_vars, mapper_vars, config_vars, binding_vars, examples_vars>>

\* manager.get_base_info(base_id)
GetBaseInfo ==
    /\ mgr_call.op = "idle"
    /\ Len(http_log) < MaxRequests
    /\ \E base_id \in ManagerBaseIds, outcome \in Outcomes :
        LET r == get_base_info(manager, http_log, base_id, outcome)
        IN  /\ http_log' = r.log
            /\ mgr_call' = [NoManagerCall EXCEPT !.op = "get_base_info", !.base_id = base_id,
                               !.outcome = outcome, !.exc = r.exc, !.ret = r.ret]
    /\ UNCHANGED <<manager, resolver_vars, mapper_vars, config_vars, binding_vars, examples_vars>>

\* the call has returned or raised; the caller goes on
ManagerReturn ==
    /\ mgr_call.op # "idle"
    /\ mgr_call' = NoManagerCall
    /\ UNCHANGED <<manager, http_log, resolver_vars, mapper_vars, config_vars, binding_vars, examples_vars>>

NextManager ==
    \/ HandleResponse
    \/ ListBases
    \/ GetBaseSchema
    \/ CreateBase
    \/ DeleteBase
    \/ GetBaseInfo
    \/ ManagerReturn

SpecManager == InitManager /\ [][NextManager]_vars

\* ------------------------------------------------------------------------
\* Properties of base_manager.py
\* ------------------------------------------------------------------------
\* the body of a response as _handle_response reads it: the JSON value, or the
\* text wrapped as an error message when the body is not JSON
ParsedBody(response) ==
    IF response.is_json THEN response.json
    ELSE JDict("error" :> JDict("message" :> JStr(response.text)))

\* C14: _handle_response raises APIError carrying the response status and the
\* parsed body for every response with a non-success status, whatever the
\* body is, and returns the parsed body, raising nothing, for every success
\* response.
HandleResponseContract ==
    mgr_call.op = "_handle_response" =>
        LET response == mgr_call.outcome.response
        IN  IF response.status_code >= 400
            THEN /\ mgr_call.exc.type = "APIError"
                 /\ mgr_call.exc.status_code = response.status_code
                 /\ mgr_call.exc.response_data = ParsedBody(response)
            ELSE /\ mgr_call.exc.type = "None"
                 /\ mgr_call.ret = ParsedBody(response)

ManagerOperations ==
    {"list_bases", "get_base_schema", "create_base", "delete_base", "get_base_info"}

\* C15: each of list_bases, get_base_schema, create_base, delete_base and
\* get_base_info sends exactly one HTTP request, with the header
\* 'Authorization: Bearer <token>' of the manager's token, whether the request
\* succeeds, gets an error response or fails in the transport.
OneRequestPerOperation ==
    [][ mgr_call.op = "idle" /\ mgr_call'.op \in ManagerOperations =>
          /\ Len(http_log') = Len(http_log) + 1
          /\ \A i \in DOMAIN http_log : http_log'[i] = http_log[i]
          /\ "Authorization" \in DOMAIN http_log'[Len(http_log')].headers
          /\ http_log'[Len(http_log')].headers["Authorization"]
                 = <<"Bearer ", manager.access_token>>
      ]_vars

\* get_base_info got a 404 response with an error object, raised APIError, and
\* the session has sent that one request only
WitnessOneRequestPerOperation ==
    /\ mgr_call.op = "get_base_info"
    /\ mgr_call.outcome.response.status_code = 404
    /\ mgr_call.exc.type = "APIError"
    /\ Len(http_log) = 1
    /\ http_log[1].headers["Authorization"] = <<"Bearer ", manager.access_token>>

\* ------------------------------------------------------------------------
\* Model binding: bulk_create, find_by and sync_table of a bound model.
\*   Their code is not among the sources at hand (examples/ only calls
\*   them); they are modelled from sections 4.4 and 8 of the specification.
\*   The live table is the Airtable side: its fields and its records.
\* ------------------------------------------------------------------------
\* Airtable's limit of records per create call
BATCH_SIZE == 10

NoFormula == [fn |-> "None", args |-> <<>>]

\* one API call: records created, records listed under a formula, the table
\* schema read, a field created or updated
ApiCall(call, records, formula, field) ==
    [call |-> call, records |-> records, formula |-> formula, field |-> field]

\* a batch that takes every pending record
next_batch_unbounded(pending) == pending

\* the records of the next create call: the first BATCH_SIZE pending ones
next_batch(pending) ==
    SubSeq(pending, 1, IF Len(pending) < BATCH_SIZE THEN Len(pending) ELSE BATCH_SIZE)

\* Airtable creates the records of a batch, in order, and assigns their ids
server_create(store, batch) ==
    store \o [i \in 1..Len(batch) |-> [id |-> Len(store) + i, fields |-> batch[i]]]

\* a filter formula that holds when any one equality holds
build_filter_formula_any(filters) ==
    IF filters = <<>> THEN NoFormula ELSE [fn |-> "OR", args |-> filters]

\* find_by's filter formula: AND over one equality {field} = value per filter
build_filter_formula(filters) ==
    IF filters = <<>> THEN NoFormula ELSE [fn |-> "AND", args |-> filters]

\* Airtable evaluating filterByFormula on a record
eval_formula(formula, fields) ==
    CASE formula.fn = "None" -> TRUE
      [] formula.fn = "AND" ->
            \A i \in DOMAIN formula.args : fields[formula.args[i].field] = formula.args[i].value
      [] formula.fn = "OR" ->
            \E i \in DOMAIN formula.args : fields[formula.args[i].field] = formula.args[i].value

\* Airtable listing the records of the table that the formula selects, in order
RECURSIVE server_list(_, _)
server_list(store, formula) ==
    IF store = <<>> THEN <<>>
    ELSE IF eval_formula(formula, store[1].fields)
         THEN <<store[1]>> \o server_list(Tail(store), formula)
         ELSE server_list(Tail(store), formula)

\* find_by(**filters): [calls, exc, instances]; failed says the list call fails
find_by(store, filters, failed) ==
    LET formula == build_filter_formula(filters)
        calls == <<ApiCall("list_records", <<>>, formula, "None")>>
    IN  IF failed
        THEN [calls |-> calls, exc |-> "APIError", instances |-> <<>>]
        ELSE [calls |-> calls, exc |-> "None", instances |-> server_list(store, formula)]

\* the loop of sync_table over declared[i..]; st holds the table's fields, the
\* calls made, the three reports and the exception; the API call number
\* fail_at fails (0: none does)
RECURSIVE sync_from(_, _, _, _, _)
sync_from(declared, i, update_field_types, fail_at, st) ==
    IF i > Len(declared) \/ st.exc # "None" THEN st
    ELSE LET name == declared[i].name
             type == declared[i].type
             fails == Len(st.calls) + 1 = fail_at
         IN  IF name \notin DOMAIN st.fields
             THEN sync_from(declared, i + 1, update_field_types, fail_at,
                      IF fails
                      THEN [st EXCEPT !.calls = Append(@, ApiCall("create_field", <<>>, NoFormula, name)),
                                      !.exc = "APIError"]
                      ELSE [st EXCEPT !.calls = Append(@, ApiCall("create_field", <<>>, NoFormula, name)),
                                      !.fields = (name :> type) @@ @,
                                      !.fields_created = Append(@, name)])
             ELSE IF update_field_types /\ st.fields[name] # type
             THEN sync_from(declared, i + 1, update_field_types, fail_at,
                      IF fails
                      THEN [st EXCEPT !.calls = Append(@, ApiCall("update_field", <<>>, NoFormula, name)),
                                      !.exc = "APIError"]
                      ELSE [st EXCEPT !.calls = Append(@, ApiCall("update_field", <<>>, NoFormula, name)),
                                      !.fields = [@ EXCEPT ![name] = type],
                                      !.fields_updated = Append(@, name)])
             ELSE sync_from(declared, i + 1, update_field_types, fail_at,
                      [st EXCEPT !.fields_skipped = Append(@, name)])

\* a sync_table that makes the table's fields the declared ones
sync_table_replace(fields, declared, update_field_types, fail_at) ==
    [fields |-> [name \in {declared[i].name : i \in DOMAIN declared} |->
                    declared[CHOOSE i \in DOMAIN declared : declared[i].name = name].type],
     calls |-> <<ApiCall("get_schema", <<>>, NoFormula, "None")>>,
     fields_created |-> <<>>, fields_updated |-> <<>>,
     fields_skipped |-> [i \in DOMAIN declared |-> declared[i].name],
     exc |-> "None"]

\* sync_table(create_missing_fields=True, update_field_types=...): reads the
\* live schema, then handles each declared field in order
sync_table(fields, declared, update_field_types, fail_at) ==
    LET st == [fields |-> fields,
               calls |-> <<ApiCall("get_schema", <<>>, NoFormula, "None")>>,
               fields_created |-> <<>>, fields_updated |-> <<>>, fields_skipped |-> <<>>,
               exc |-> IF fail_at = 1 THEN "APIError" ELSE "None"]
    IN  sync_from(declared, 1, update_field_types, fail_at, st)

\* ------------------------------------------------------------------------
\* Inputs of the model binding
\* ------------------------------------------------------------------------
\* the longest list given to bulk_create
MaxRecords == 25

\* bulk_create is run on tables of at most this many records
MaxLoaded == 2

\* the most API calls of a sync_table that one of them can fail at
MaxFailAt == 4

\* the i-th record of an input list
InputRecord(i) ==
    [name |-> i,
     status |-> IF i % 2 = 0 THEN "done" ELSE "pending",
     priority |-> IF i % 3 = 0 THEN "high" ELSE "low"]

\* the lists given to bulk_create: every length, numbered up and numbered down
InputLists ==
    { [i \in 1..n |-> InputRecord(i)] : n \in 0..MaxRecords }
    \cup
    { [i \in 1..n |-> InputRecord(n + 1 - i)] : n \in 0..MaxRecords }

\* find_by's keyword filters, in the order they are passed
FilterLists ==
    { <<>>,
      <<[field |-> "status", value |-> "pending"]>>,
      <<[field |-> "priority", value |-> "high"]>>,
      <<[field |-> "status", value |-> "pending"], [field |-> "priority", value |-> "high"]>>,
      <<[field |-> "priority", value |-> "low"], [field |-> "status", value |-> "done"]>>,
      <<[field |-> "status", value |-> "failed"], [field |-> "priority", value |-> "low"]>> }

\* the fields a model declares, in order: a model and its extended version
DeclaredSchemas ==
    { <<[name |-> "Name", type |-> SINGLE_LINE_TEXT],
        [name |-> "Email", type |-> EMAIL]>>,
      <<[name |-> "Name", type |-> SINGLE_LINE_TEXT],
        [name |-> "Email", type |-> EMAIL],
        [name |-> "Age", type |-> NUMBER]>> }

\* the tables the model is bound to: their fields before any sync
LiveTables ==
    { ("Name" :> SINGLE_LINE_TEXT),
      ("Name" :> SINGLE_LINE_TEXT) @@ ("Email" :> SINGLE_LINE_TEXT) @@ ("Legacy" :> CHECKBOX),
      ("Name" :> LONG_TEXT) @@ ("Email" :> EMAIL) @@ ("Age" :> NUMBER) }

\* ------------------------------------------------------------------------
\* The model binding: the calls
\* ------------------------------------------------------------------------
InitBinding ==
    /\ ResolverIdle
    /\ MapperIdle
    /\ ConfigIdle
    /\ ManagerIdle
    /\ ExamplesIdle
    /\ tbl_fields \in LiveTables
    /\ tbl_records \in {<<>>, server_create(<<>>, <<InputRecord(3), InputRecord(4)>>)}
    /\ api_calls = <<>>
    /\ bind_call = NoBindingCall

\* Model.bulk_create(records): the call starts, nothing is sent yet
BulkCreate ==
    /\ bind_call.op = "idle"
    /\ Len(tbl_records) <= MaxLoaded
    /\ \E records \in InputLists :
        bind_call' = [NoBindingCall EXCEPT !.op = "bulk_create",
                         !.pc = IF records = <<>> THEN "done" ELSE "batching",
                         !.records = records, !.pending = records]
    /\ api_calls' = <<>>
    /\ UNCHANGED <<tbl_fields, tbl_records, resolver_vars, mapper_vars, config_vars, manager_vars, examples_vars>>

\* bulk_create's loop: one create call for the next batch; the call creates
\* the records or fails, and a failure ends bulk_create
BulkCreateBatch ==
    /\ bind_call.op = "bulk_create"
    /\ bind_call.pc = "batching"
    /\ LET batch == next_batch(bind_call.pending)
           rest == SubSeq(bind_call.pending, Len(batch) + 1, Len(bind_call.pending))
           store == server_create(tbl_records, batch)
       IN  /\ api_calls' = Append(api_calls, ApiCall("create_records", batch, NoFormula, "None"))
           /\ \/ /\ tbl_records' = store
                 /\ bind_call' = [bind_call EXCEPT
                                    !.pc = IF rest = <<>> THEN "done" ELSE "batching",
                                    !.pending = rest,
                                    !.instances = @ \o SubSeq(store, Len(tbl_records) + 1, Len(store))]
              \/ /\ tbl_records' = tbl_records
                 /\ bind_call' = [bind_call EXCEPT !.pc = "done", !.exc = "APIError"]
    /\ UNCHANGED <<tbl_fields, resolver_vars, mapper_vars, config_vars, manager_vars, examples_vars>>

\* Model.find_by(**filters)
FindBy ==
    /\ bind_call.op = "idle"
    /\ \E filters \in FilterLists, failed \in BOOLEAN :
        LET r == find_by(tbl_records, filters, failed)
        IN  /\ api_calls' = r.calls
            /\ bind_call' = [NoBindingCall EXCEPT !.op = "find_by", !.filters = filters,
                                !.exc = r.exc, !.instances = r.instances]
    /\ UNCHANGED <<tbl_fields, tbl_records, resolver_vars, mapper_vars, config_vars, manager_vars, examples_vars>>

\* Model.sync_table(create_missing_fields=True, update_field_types=...)
SyncTable ==
    /\ bind_call.op = "idle"
    /\ \E declared \in DeclaredSchemas, update_field_types \in BOOLEAN, fail_at \in 0..MaxFailAt :
        LET r == sync_table(tbl_fields, declared, update_field_types, fail_at)
        IN  /\ tbl_fields' = r.fields
            /\ api_calls' = r.calls
            /\ bind_call' = [NoBindingCall EXCEPT !.op = "sync_table",
                                !.records = declared,
                                !.update_field_types = update_field_types, !.exc = r.exc,
                                !.fields_created = r.fields_created,
                                !.fields_updated = r.fields_updated,
                                !.fields_skipped = r.fields_skipped]
    /\ UNCHANGED <<tbl_records, resolver_vars, mapper_vars, config_vars, manager_vars, examples_vars>>

\* the operation has returned or raised; the caller goes on
BindingReturn ==
    /\ bind_call.op # "idle"
    /\ bind_call.pc = "done"
    /\ bind_call' = NoBindingCall
    /\ api_calls' = <<>>
    /\ UNCHANGED <<tbl_fields, tbl_records, resolver_vars, mapper_vars,
                   config_vars, manager_vars, examples_vars>>

NextBinding ==
    \/ BulkCreate
    \/ BulkCreateBatch
    \/ FindBy
    \/ SyncTable
    \/ BindingReturn

SpecBinding == InitBinding /\ [][NextBinding]_vars

\* ------------------------------------------------------------------------
\* Properties of the model binding
\* ------------------------------------------------------------------------
\* C16: bulk_create with n records issues create calls one at a time, each
\* with at most 10 records, never more than ceil(n/10) of them; when it
\* returns it has issued exactly ceil(n/10) calls, the k-th carrying records
\* 10(k-1)+1 .. min(10k, n) of the input (25 records: 10, 10 and 5), and it
\* returns n instances, the i-th made from the i-th input record.
BulkCreateBatches ==
    bind_call.op = "bulk_create" =>
        LET n == Len(bind_call.records)
            last(k) == IF 10 * k < n THEN 10 * k ELSE n
        IN  /\ Len(api_calls) <= (n + 9) \div 10
            /\ \A k \in DOMAIN api_calls :
                   /\ api_calls[k].call = "create_records"
                   /\ Len(api_calls[k].records) \in 1..10
            /\ bind_call.pc = "done" /\ bind_call.exc = "None" =>
                   /\ Len(api_calls) = (n + 9) \div 10
                   /\ \A k \in DOMAIN api_calls :
                          api_calls[k].records
                              = SubSeq(bind_call.records, 10 * (k - 1) + 1, last(k))
                   /\ Len(bind_call.instances) = n
                   /\ \A i \in 1..n : bind_call.instances[i].fields = bind_call.records[i]

\* bulk_create returned for 25 records numbered down, after calls of 10, 10 and 5
WitnessBulkCreateBatches ==
    /\ bind_call.op = "bulk_create"
    /\ bind_call.pc = "done"
    /\ bind_call.exc = "None"
    /\ Len(bind_call.records) = 25
    /\ bind_call.records[1].name = 25
    /\ Len(api_calls) = 3
    /\ Len(api_calls[1].records) = 10
    /\ Len(api_calls[2].records) = 10
    /\ Len(api_calls[3].records) = 5
    /\ Len(bind_call.instances) = 25

\* the record satisfies every filter of the list
SatisfiesAll(record, filters) ==
    \A j \in DOMAIN filters : record.fields[filters[j].field] = filters[j].value

\* the records of a table that satisfy every filter, in the table's order
RECURSIVE Matching(_, _)
Matching(store, filters) ==
    IF store = <<>> THEN <<>>
    ELSE (IF SatisfiesAll(store[1], filters) THEN <<store[1]>> ELSE <<>>)
         \o Matching(Tail(store), filters)

\* C17: find_by with one or more equality filters issues exactly one call, a
\* list call whose filter expression is the AND of one equality per filter;
\* the records it returns are those of the table that satisfy every filter.
FindByConjunction ==
    bind_call.op = "find_by" /\ bind_call.filters # <<>> =>
        /\ Len(api_calls) = 1
        /\ api_calls[1].call = "list_records"
        /\ api_calls[1].formula.fn = "AND"
        /\ Len(api_calls[1].formula.args) = Len(bind_call.filters)
        /\ \A j \in DOMAIN bind_call.filters :
               api_calls[1].formula.args[j] = bind_call.filters[j]
        /\ bind_call.exc = "None" =>
               bind_call.instances = Matching(tbl_records, bind_call.filters)

\* find_by with two filters returned some records, and left out a record that
\* satisfies only one of the two
WitnessFindByConjunction ==
    /\ bind_call.op = "find_by"
    /\ Len(bind_call.filters) = 2
    /\ bind_call.exc = "None"
    /\ bind_call.instances # <<>>
    /\ \E i \in DOMAIN tbl_records :
           /\ SatisfiesAll(tbl_records[i], <<bind_call.filters[1]>>)
           /\ ~SatisfiesAll(tbl_records[i], <<bind_call.filters[2]>>)

\* how often a name is in a report
Occurrences(report, name) == Cardinality({i \in DOMAIN report : report[i] = name})

\* C18: no step removes a field of the live table; a sync_table that returns
\* leaves every declared field in the table, reports the declared fields that
\* were missing as created, and reports each declared field name in exactly
\* one of created, updated and skipped.
SyncTableKeepsFields ==
    [][ /\ \A name \in DOMAIN tbl_fields : name \in DOMAIN tbl_fields'
        /\ bind_call.op = "idle" /\ bind_call'.op = "sync_table" /\ bind_call'.exc = "None" =>
              \A i \in DOMAIN bind_call'.records :
                  LET name == bind_call'.records[i].name
                  IN  /\ name \in DOMAIN tbl_fields'
                      /\ name \notin DOMAIN tbl_fields =>
                             Occurrences(bind_call'.fields_created, name) = 1
                      /\ Occurrences(bind_call'.fields_created, name)
                           + Occurrences(bind_call'.fields_updated, name)
                           + Occurrences(bind_call'.fields_skipped, name) = 1
      ]_vars

\* sync_table returned having created a field, updated one and skipped one,
\* on a table that has a field the model does not declare
WitnessSyncTableKeepsFields ==
    /\ bind_call.op = "sync_table"
    /\ bind_call.exc = "None"
    /\ bind_call.fields_created # <<>>
    /\ bind_call.fields_updated # <<>>
    /\ bind_call.fields_skipped # <<>>
    /\ "Legacy" \in DOMAIN tbl_fields
\* ------------------------------------------------------------------------
\* examples/agentic_researcher/agentic_researcher.py: AgenticResearcher
\*   one ResearchTask, its ResearchSteps and ResearchResults, each both as
\*   the instance in memory and as the row stored in Airtable. An instance
\*   is written to its row by save(), a whole-record update; every Airtable
\*   call (create, get, find_by, save) either succeeds or raises and then
\*   changes nothing in Airtable.
\* ------------------------------------------------------------------------
\* instance.save(): the row after the update call, which succeeded or raised
save(row, instance, succeeds) == IF succeeds THEN instance ELSE row

\* the Airtable and prompt calls of execute_research_step, in program order:
\* 1 step.start_step(), 2 ResearchTask.get, 3 ResearchResult.find_by,
\* 4 prompt formatting and json.loads, 5 ResearchResult.create,
\* 6 step.complete_step(), 7 ResearchStep.find_by, 8 task.update_progress
STEP_CALLS == 8

\* what call number n of execute_research_step raises when it fails
StepException(n) == IF n = 4 THEN "TypeError" ELSE "APIError"

\* len(ResearchStep.find_by(task_id=task.id, status=StepStatus.COMPLETED))
completed_count(rows) == Cardinality({j \in DOMAIN rows : rows[j].status = COMPLETED})

\* AgenticResearcher.execute_research_step(step) for step number k, where
\* call number fail_at raises (0: none does) and the save of fail_step
\* succeeds or not. st holds task_row, steps, step_rows and result_rows; the
\* JSON branch and the fallback branch make the same calls
execute_research_step(st, k, fail_at, fail_step_saved) ==
    LET started == [st EXCEPT !.steps[k].status = IN_PROGRESS]
        s1 == [started EXCEPT !.step_rows[k] = save(@, started.steps[k], TRUE)]
        s5 == [s1 EXCEPT !.result_rows = Append(@, k)]
        completing == [s5 EXCEPT !.steps[k].status = COMPLETED]
        s6 == [completing EXCEPT !.step_rows[k] = save(@, completing.steps[k], TRUE)]
        \* task is the instance ResearchTask.get returned, not the caller's
        fetched == [s6.task_row EXCEPT !.completed_steps = completed_count(s6.step_rows)]
        s8 == [s6 EXCEPT !.task_row = save(@, fetched, TRUE)]
        raised_in == CASE fail_at \in 2..5 -> s1
                       [] fail_at = 6 -> completing
                       [] OTHER -> s6
        failing == [raised_in EXCEPT !.steps[k].status = FAILED]
        failed == [failing EXCEPT !.step_rows[k] = save(@, failing.steps[k], fail_step_saved)]
    IN  IF fail_at = 1
        THEN [st |-> started, exc |-> "APIError", ret |-> 0]
        ELSE IF fail_at = 0
        THEN [st |-> s8, exc |-> "None", ret |-> Len(s5.result_rows)]
        ELSE [st |-> failed,
              exc |-> IF fail_step_saved THEN StepException(fail_at) ELSE "APIError",
              ret |-> 0]

\* the number of steps of the fallback plan of define_research_steps
BASIC_STEPS == 3

\* the most steps a plan parsed from the AI response has
MaxSteps == 2

NewStep == [status |-> PENDING]

NewSteps(n) == [j \in 1..n |-> NewStep]

ResearchState == [task_row |-> task_row, steps |-> steps, step_rows |-> step_rows,
                  result_rows |-> result_rows]

InitResearcher ==
    /\ ResolverIdle
    /\ MapperIdle
    /\ ConfigIdle
    /\ ManagerIdle
    /\ BindingIdle
    /\ ToolsIdle
    /\ AgentIdle
    /\ TablesIdle
    /\ ResearcherIdle

\* execute_full_research(task): task.start_research(), outside the try block
StartResearch ==
    /\ run.op = "idle"
    /\ \E saved \in BOOLEAN :
        /\ task' = [task EXCEPT !.status = IN_PROGRESS]
        /\ task_row' = save(task_row, task', saved)
        /\ run' = [NoRun EXCEPT !.op = "execute_full_research",
                      !.pc = IF saved THEN "define" ELSE "raised",
                      !.exc = IF saved THEN "None" ELSE "APIError"]
    /\ UNCHANGED <<steps, step_rows, result_rows, step_call>>
    /\ UNCHANGED <<resolver_vars, mapper_vars, config_vars, manager_vars, binding_vars,
                   tools_vars, agent_vars, tables_vars>>

\* steps = await self.define_research_steps(task): n steps are created one by
\* one (BASIC_STEPS of them when the response is not JSON), then
\* task.update_progress(0, n); call number fail_at raises (0: none does)
DefineResearchSteps ==
    /\ run.pc = "define"
    /\ \E n \in (0..MaxSteps) \cup {BASIC_STEPS} :
       \E fail_at \in 0..(n + 1) :
        LET created == IF fail_at = 0 \/ fail_at = n + 1 THEN n ELSE fail_at - 1
            counted == [task EXCEPT !.completed_steps = 0, !.total_steps = n]
        IN  /\ step_rows' = NewSteps(created)
            /\ steps' = IF fail_at = 0 THEN NewSteps(n) ELSE <<>>
            /\ task' = IF fail_at \in {0, n + 1} THEN counted ELSE task
            /\ task_row' = save(task_row, counted, fail_at = 0)
            /\ run' = [run EXCEPT !.pc = IF fail_at # 0 THEN "except"
                                         ELSE IF n = 0 THEN "summary" ELSE "steps",
                                  !.i = 1,
                                  !.exc = IF fail_at # 0 THEN "APIError" ELSE "None"]
    /\ UNCHANGED <<result_rows, step_call>>
    /\ UNCHANGED <<resolver_vars, mapper_vars, config_vars, manager_vars, binding_vars,
                   tools_vars, agent_vars, tables_vars>>

\* for step in steps: result = await self.execute_research_step(step)
ExecuteResearchStep ==
    /\ run.pc = "steps"
    /\ \E fail_at \in 0..STEP_CALLS, fail_step_saved \in BOOLEAN :
        LET r == execute_research_step(ResearchState, run.i, fail_at, fail_step_saved)
        IN  /\ task_row' = r.st.task_row
            /\ steps' = r.st.steps
            /\ step_rows' = r.st.step_rows
            /\ result_rows' = r.st.result_rows
            /\ step_call' = [k |-> run.i, exc |-> r.exc, ret |-> r.ret]
            /\ run' = IF r.exc # "None"
                      THEN [run EXCEPT !.pc = "except", !.exc = r.exc]
                      ELSE [run EXCEPT !.executed = Append(@, run.i),
                                       !.i = @ + 1,
                                       !.pc = IF run.i = Len(steps) THEN "summary" ELSE "steps"]
    /\ UNCHANGED task
    /\ UNCHANGED <<resolver_vars, mapper_vars, config_vars, manager_vars, binding_vars,
                   tools_vars, agent_vars, tables_vars>>

\* final_summary = await self._create_final_summary(task, step_results)
CreateFinalSummary ==
    /\ run.pc = "summary"
    /\ \E created \in BOOLEAN :
        /\ result_rows' = IF created THEN Append(result_rows, 0) ELSE result_rows
        /\ run' = [run EXCEPT !.pc = IF created THEN "complete" ELSE "except",
                              !.exc = IF created THEN "None" ELSE "APIError"]
    /\ UNCHANGED <<task, task_row, steps, step_rows, step_call>>
    /\ UNCHANGED <<resolver_vars, mapper_vars, config_vars, manager_vars, binding_vars,
                   tools_vars, agent_vars, tables_vars>>

\* task.complete_research(); return final_summary
CompleteResearch ==
    /\ run.pc = "complete"
    /\ \E saved \in BOOLEAN :
        /\ task' = [task EXCEPT !.status = COMPLETED]
        /\ task_row' = save(task_row, task', saved)
        /\ run' = [run EXCEPT !.pc = IF saved THEN "returned" ELSE "except",
                              !.exc = IF saved THEN "None" ELSE "APIError"]
    /\ UNCHANGED <<steps, step_rows, result_rows, step_call>>
    /\ UNCHANGED <<resolver_vars, mapper_vars, config_vars, manager_vars, binding_vars,
                   tools_vars, agent_vars, tables_vars>>

\* except Exception: task.status = TaskStatus.FAILED; task.save(); raise
ExceptResearch ==
    /\ run.pc = "except"
    /\ \E saved \in BOOLEAN :
        /\ task' = [task EXCEPT !.status = FAILED]
        /\ task_row' = save(task_row, task', saved)
        /\ run' = [run EXCEPT !.pc = "raised",
                              !.exc = IF saved THEN run.exc ELSE "APIError"]
    /\ UNCHANGED <<steps, step_rows, result_rows, step_call>>
    /\ UNCHANGED <<resolver_vars, mapper_vars, config_vars, manager_vars, binding_vars,
                   tools_vars, agent_vars, tables_vars>>

\* the call has ended; the caller creates the next task
ResearchReturn ==
    /\ run.pc \in {"returned", "raised"}
    /\ task' = NewResearchTask
    /\ task_row' = NewResearchTask
    /\ steps' = <<>>
    /\ step_rows' = <<>>
    /\ result_rows' = <<>>
    /\ run' = NoRun
    /\ step_call' = NoStepCall
    /\ UNCHANGED <<resolver_vars, mapper_vars, config_vars, manager_vars, binding_vars,
                   tools_vars, agent_vars, tables_vars>>

NextResearcher ==
    \/ StartResearch
    \/ DefineResearchSteps
    \/ ExecuteResearchStep
    \/ CreateFinalSummary
    \/ CompleteResearch
    \/ ExceptResearch
    \/ ResearchReturn

SpecResearcher == InitResearcher /\ [][NextResearcher]_vars

\* ------------------------------------------------------------------------
\* Properties of the researcher
\* ------------------------------------------------------------------------
\* the execute_full_research call has ended
ResearchEnded == run.pc \in {"returned", "raised"}

\* C25: execute_full_research returns only after every step was executed in
\* step order and the final summary was created, and then the task is
\* COMPLETED, in memory and in Airtable; if it raises, the task is FAILED, in
\* memory and in Airtable; once the call has ended the task is not IN_PROGRESS.
FullResearchOutcome ==
    ResearchEnded =>
        /\ run.pc = "returned" =>
               /\ run.executed = [j \in 1..Len(steps) |-> j]
               /\ \E r \in DOMAIN result_rows : result_rows[r] = 0
               /\ task.status = COMPLETED
               /\ task_row.status = COMPLETED
        /\ run.pc = "raised" =>
               /\ run.exc # "None"
               /\ task.status = FAILED
               /\ task_row.status = FAILED
        /\ task.status # IN_PROGRESS
        /\ task_row.status # IN_PROGRESS

\* C26: when an execute_research_step call has ended, the step is COMPLETED
\* if the call returned a result and FAILED if it raised, in memory and in
\* Airtable, never IN_PROGRESS; and a COMPLETED step has a ResearchResult.
StepOutcome ==
    step_call.k # 0 =>
        LET k == step_call.k
        IN  /\ step_call.exc = "None" =>
                   /\ step_call.ret \in DOMAIN result_rows
                   /\ steps[k].status = COMPLETED
                   /\ step_rows[k].status = COMPLETED
            /\ step_call.exc # "None" =>
                   /\ steps[k].status = FAILED
                   /\ step_rows[k].status = FAILED
            /\ steps[k].status = COMPLETED =>
                   \E r \in DOMAIN result_rows : result_rows[r] = k

\* C27: after execute_full_research returned, completed_steps of the task
\* row in Airtable and of the caller's task object is the number of the
\* task's steps, all of them COMPLETED.
NoLostProgress ==
    run.pc = "returned" =>
        /\ completed_count(step_rows) = Len(steps)
        /\ task_row.completed_steps = Len(steps)
        /\ task.completed_steps = Len(steps)
\* ------------------------------------------------------------------------
\* examples/agentic_researcher/research_tools.py: ResearchTools.web_search
\*   a result is [source, attempt, n]: result number n appended during
\*   backend attempt number attempt (attempt 0 for a mock result). An
\*   attempt of the backend, self.ddgs.text(...) and the loop over what it
\*   gives, is [raises, found]: found results were appended, then the attempt
\*   raised or ended.
\* ------------------------------------------------------------------------
\* self.search_delay, and the seconds slept after failed attempt 1
SEARCH_DELAY == 2
BACKOFF == 5
\* for attempt in range(3)
MAX_ATTEMPTS == 3

S_machine_learning ==
    <<"m","a","c","h","i","n","e"," ","l","e","a","r","n","i","n","g">>
S_ai == <<"a","i">>
S_market == <<"m","a","r","k","e","t">>

MockResult(n) == [source |-> "research_framework", attempt |-> 0, n |-> n]

\* mock_results[:max_results], max_results not negative
slice_to(list, max_results) ==
    SubSeq(list, 1, IF max_results < Len(list) THEN max_results ELSE Len(list))

\* ResearchTools._create_mock_results(query, max_results)
_create_mock_results(query, max_results) ==
    LET mock_results ==
            IF re_search(S_machine_learning, lower(query)) \/ re_search(S_ai, lower(query))
            THEN <<MockResult(1), MockResult(2)>>
            ELSE IF re_search(S_market, lower(query))
            THEN <<MockResult(3)>>
            ELSE <<MockResult(4)>>
    IN  slice_to(mock_results, max_results)

\* the results one attempt appends
Appended(attempt, found) ==
    [n \in 1..found |-> [source |-> "web_search", attempt |-> attempt, n |-> n]]

\* the retry loop of web_search from attempt number attempt on: results
\* collects what the attempts append, now is time.time()
RECURSIVE search_from(_, _, _, _, _, _, _)
search_from(self, query, max_results, attempts, attempt, results, now) ==
    LET collected == results \o Appended(attempt, attempts[attempt].found)
    IN  IF ~attempts[attempt].raises
        THEN [tools |-> [self EXCEPT !.last_search_time = now], clock |-> now,
              calls |-> attempt,
              ret |-> IF collected = <<>>
                      THEN _create_mock_results(query, max_results)
                      ELSE collected]
        ELSE IF attempt < MAX_ATTEMPTS
        THEN search_from(self, query, max_results, attempts, attempt + 1, collected,
                         now + BACKOFF * attempt)
        ELSE [tools |-> self, clock |-> now, calls |-> attempt,
              ret |-> _create_mock_results(query, max_results)]

\* ResearchTools.web_search(query, max_results) called at time now
web_search(self, query, max_results, attempts, now) ==
    IF ~self.ddgs
    THEN [tools |-> self, clock |-> now, calls |-> 0,
          ret |-> _create_mock_results(query, max_results)]
    ELSE search_from(self, query, max_results, attempts, 1, <<>>,
                     IF now - self.last_search_time < SEARCH_DELAY
                     THEN now + SEARCH_DELAY ELSE now)

\* the most results one backend attempt gives
MaxFound == 2

\* the latest time at which a search is started
MaxClock == 12

Queries ==
    { <<"A","I"," ","l","a","w">>, <<"m","a","r","k","e","t","s">>, <<"t","e","a">> }

MaxResults == {1, 10}

Attempt == [raises : BOOLEAN, found : 0..MaxFound]

AttemptPlans == [1..MAX_ATTEMPTS -> Attempt]

InitTools ==
    /\ ResolverIdle
    /\ MapperIdle
    /\ ConfigIdle
    /\ ManagerIdle
    /\ BindingIdle
    /\ ResearcherIdle
    /\ AgentIdle
    /\ TablesIdle
    /\ tools \in {[ddgs |-> d, last_search_time |-> 0] : d \in BOOLEAN}
    /\ clock = SEARCH_DELAY
    /\ search_call = NoSearchCall

\* tools.web_search(query, max_results)
WebSearch ==
    /\ search_call.op = "idle"
    /\ clock <= MaxClock
    /\ \E query \in Queries, max_results \in MaxResults, attempts \in AttemptPlans :
        LET r == web_search(tools, query, max_results, attempts, clock)
        IN  /\ tools' = r.tools
            /\ clock' = r.clock
            /\ search_call' = [op |-> "web_search", query |-> query,
                               max_results |-> max_results,
                               before |-> tools.last_search_time,
                               attempts |-> attempts, calls |-> r.calls,
                               exc |-> "None", ret |-> r.ret]
    /\ UNCHANGED <<resolver_vars, mapper_vars, config_vars, manager_vars, binding_vars,
                   researcher_vars, agent_vars, tables_vars>>

\* the caller goes on; the next search comes a second or more later
SearchReturn ==
    /\ search_call.op # "idle"
    /\ \E elapsed \in {1, SEARCH_DELAY} : clock' = clock + elapsed
    /\ search_call' = NoSearchCall
    /\ UNCHANGED tools
    /\ UNCHANGED <<resolver_vars, mapper_vars, config_vars, manager_vars, binding_vars,
                   researcher_vars, agent_vars, tables_vars>>

NextTools ==
    \/ WebSearch
    \/ SearchReturn

SpecTools == InitTools /\ [][NextTools]_vars

\* ------------------------------------------------------------------------
\* Properties of web_search
\* ------------------------------------------------------------------------
\* the attempts of the plan that the loop reaches and that do not raise
Succeeding(attempts) == {a \in 1..MAX_ATTEMPTS : ~attempts[a].raises}

FirstSucceeding(attempts) ==
    CHOOSE a \in Succeeding(attempts) : \A b \in Succeeding(attempts) : a <= b

\* C28: web_search never raises; it calls the backend at most 3 times and
\* stops at the first attempt that succeeds; it returns the mock results
\* when all 3 attempts fail, when the backend is not initialised and when the
\* successful attempt found nothing; last_search_time changes only when an
\* attempt succeeded.
WebSearchContract ==
    search_call.op = "web_search" =>
        LET attempts == search_call.attempts
            mock == _create_mock_results(search_call.query, search_call.max_results)
        IN  /\ search_call.exc = "None"
            /\ search_call.calls <= MAX_ATTEMPTS
            /\ IF ~tools.ddgs
               THEN /\ search_call.calls = 0
                    /\ search_call.ret = mock
                    /\ tools.last_search_time = search_call.before
               ELSE IF Succeeding(attempts) = {}
               THEN /\ search_call.calls = MAX_ATTEMPTS
                    /\ search_call.ret = mock
                    /\ tools.last_search_time = search_call.before
               ELSE /\ search_call.calls = FirstSucceeding(attempts)
                    /\ attempts[FirstSucceeding(attempts)].found = 0
                           => search_call.ret = mock
\* ------------------------------------------------------------------------
\* examples/agent_tasks/agent_tasks.py: AgentTask
\*   a datetime is the tick of datetime.utcnow(), 0 for None; a duration is
\*   a number of ticks, -1 for None; a text is a string, "None" for None.
\*   Every method assigns the fields and then calls save(), which may raise
\*   with the assignments already made.
\* ------------------------------------------------------------------------
\* AgentTask.start_execution()
start_execution(self, now) ==
    [self EXCEPT !.status = IN_PROGRESS, !.started_at = now]

\* execution_time when given, else the time since started_at when the task
\* was started, else what the field held
elapsed_time(self, execution_time, now) ==
    IF execution_time # -1 THEN execution_time
    ELSE IF self.started_at # 0 THEN now - self.started_at
    ELSE self.execution_time_seconds

\* AgentTask.complete_execution(output, execution_time)
complete_execution(self, output, execution_time, now) ==
    [self EXCEPT !.status = COMPLETED, !.completed_at = now, !.output = output,
                 !.execution_time_seconds = elapsed_time(self, execution_time, now)]

\* AgentTask.fail_execution(error_message, execution_time)
fail_execution(self, error_message, execution_time, now) ==
    [self EXCEPT !.status = FAILED, !.completed_at = now, !.error_message = error_message,
                 !.execution_time_seconds = elapsed_time(self, execution_time, now)]

\* retry_execution that leaves the error message of the failed run in place
retry_execution_keeping_error(self) ==
    [self EXCEPT !.retry_count = @ + 1, !.status = PENDING, !.started_at = 0,
                 !.completed_at = 0]

\* AgentTask.retry_execution()
retry_execution(self) ==
    [self EXCEPT !.retry_count = @ + 1, !.status = PENDING, !.started_at = 0,
                 !.completed_at = 0, !.error_message = "None"]

\* the most method calls made on the task, one per tick
MaxTicks == 5

\* the most retry_execution calls made on the task
MaxRetries == 2

ExecutionTimes == {-1, 3}

SaveOutcomes == {"None", "APIError"}

InitAgent ==
    /\ ResolverIdle
    /\ MapperIdle
    /\ ConfigIdle
    /\ ManagerIdle
    /\ BindingIdle
    /\ ResearcherIdle
    /\ ToolsIdle
    /\ TablesIdle
    /\ \E retry_count \in 0..1 :
        /\ agent_task = NewAgentTask(retry_count)
        /\ agent_call = [NoAgentCall EXCEPT !.initial = retry_count]

\* the call op is made at tick agent_call.now and its save ends with exc
Called(op, exc) ==
    [agent_call EXCEPT !.op = op, !.now = @ + 1, !.exc = exc]

\* task.start_execution()
StartExecution ==
    /\ agent_call.now <= MaxTicks
    /\ \E exc \in SaveOutcomes :
        /\ agent_task' = start_execution(agent_task, agent_call.now)
        /\ agent_call' = Called("start_execution", exc)
    /\ UNCHANGED <<resolver_vars, mapper_vars, config_vars, manager_vars, binding_vars,
                   researcher_vars, tools_vars, tables_vars>>

\* task.complete_execution(output, execution_time)
CompleteExecution ==
    /\ agent_call.now <= MaxTicks
    /\ \E execution_time \in ExecutionTimes, exc \in SaveOutcomes :
        /\ agent_task' = complete_execution(agent_task, "Processed 45 emails",
                                            execution_time, agent_call.now)
        /\ agent_call' = Called("complete_execution", exc)
    /\ UNCHANGED <<resolver_vars, mapper_vars, config_vars, manager_vars, binding_vars,
                   researcher_vars, tools_vars, tables_vars>>

\* task.fail_execution(error_message, execution_time)
FailExecution ==
    /\ agent_call.now <= MaxTicks
    /\ \E execution_time \in ExecutionTimes, exc \in SaveOutcomes :
        /\ agent_task' = fail_execution(agent_task, "Database connection timeout",
                                        execution_time, agent_call.now)
        /\ agent_call' = Called("fail_execution", exc)
    /\ UNCHANGED <<resolver_vars, mapper_vars, config_vars, manager_vars, binding_vars,
                   researcher_vars, tools_vars, tables_vars>>

\* task.retry_execution()
RetryExecution ==
    /\ agent_call.now <= MaxTicks
    /\ agent_call.retries < MaxRetries
    /\ \E exc \in SaveOutcomes :
        /\ agent_task' = retry_execution(agent_task)
        /\ agent_call' = [Called("retry_execution", exc) EXCEPT !.retries = @ + 1]
    /\ UNCHANGED <<resolver_vars, mapper_vars, config_vars, manager_vars, binding_vars,
                   researcher_vars, tools_vars, tables_vars>>

NextAgent ==
    \/ StartExecution
    \/ CompleteExecution
    \/ FailExecution
    \/ RetryExecution

SpecAgent == InitAgent /\ [][NextAgent]_vars

\* ------------------------------------------------------------------------
\* Properties of AgentTask
\* ------------------------------------------------------------------------
\* the state right after a call: the fields the call has set
AfterAgentCall ==
    /\ agent_task.retry_count = agent_call.initial + agent_call.retries
    /\ agent_call.op = "retry_execution" =>
           /\ agent_task.status = PENDING
           /\ agent_task.started_at = 0
           /\ agent_task.completed_at = 0
           /\ agent_task.error_message = "None"
    /\ agent_call.op = "start_execution" => agent_task.status = IN_PROGRESS
    /\ agent_call.op = "complete_execution" => agent_task.status = COMPLETED
    /\ agent_call.op = "fail_execution" => agent_task.status = FAILED

\* no call lowers retry_count, and only retry_execution changes it
RetryCountStep ==
    /\ agent_task'.retry_count >= agent_task.retry_count
    /\ agent_task'.retry_count # agent_task.retry_count
           => agent_call'.op = "retry_execution"

\* C29: under any sequence of start_execution, complete_execution,
\* fail_execution and retry_execution calls, retry_count never decreases and
\* is its initial value plus the number of retry_execution calls made; right
\* after retry_execution the task is PENDING with started_at, completed_at
\* and error_message empty; right after start_execution it is IN_PROGRESS,
\* after complete_execution COMPLETED, after fail_execution FAILED.
AgentTaskLifecycle == []AfterAgentCall /\ [][RetryCountStep]_vars

\* the second retry of a task created with retry_count 1, after a run that
\* was started late enough to leave an execution time
WitnessAgentTaskLifecycle ==
    /\ agent_call.op = "retry_execution"
    /\ agent_call.initial = 1
    /\ agent_call.retries = 2
    /\ agent_task.retry_count = 3
    /\ agent_task.execution_time_seconds = 1
    /\ agent_task.status = PENDING
    /\ agent_task.error_message = "None"
\* ------------------------------------------------------------------------
\* examples/table_management/table_management.py: _create_or_get_table
\*   the base is the list of its tables, [name, id]; a table id and the None
\*   a failed call returns are strings. The call is followed through its two
\*   API calls; log lists the API calls it has made.
\* ------------------------------------------------------------------------
\* the id Airtable gives the table created under a name
TableId(name) == "tbl" \o name

\* for table in schema.get('tables', []): if table['name'] == table_name
RECURSIVE find_table(_, _, _)
find_table(tables, i, table_name) ==
    IF i > Len(tables) THEN "None"
    ELSE IF tables[i].name = table_name THEN tables[i].id
    ELSE find_table(tables, i + 1, table_name)

\* the lookup left out: every table is taken to be missing
lookup_table_skipped(schema, table_name) == "None"

\* the id of the table named table_name in the schema, None when there is none
lookup_table(schema, table_name) == find_table(schema, 1, table_name)

\* the most entries of failed_tables
MaxFailed == 2

DemoTables == {"Projects", "Employees", "Tasks"}

\* from_env and get_base_schema: the schema is returned, or one of them raises
LookupOutcomes == {"None", "ConfigurationError", "APIError", "KeyError"}

\* model_class.create_table(): the table is created and the result has its
\* id, or has no id, or the call raises
CreateOutcomes == {"created", "created_without_id", "APIError", "AttributeError"}

InitTables ==
    /\ ResolverIdle
    /\ MapperIdle
    /\ ConfigIdle
    /\ ManagerIdle
    /\ BindingIdle
    /\ ResearcherIdle
    /\ ToolsIdle
    /\ AgentIdle
    /\ base_tables \in {<<>>, <<[name |-> "Projects", id |-> TableId("Projects")]>>}
    /\ failed_tables = <<>>
    /\ table_call = NoTableCall

\* _create_or_get_table(model_class, table_name, failed_tables) up to the end
\* of the schema lookup: the table was found and its id is returned, or it
\* was not found, or an exception was caught
LookupSchema ==
    /\ table_call.pc = "idle"
    /\ Len(failed_tables) < MaxFailed
    /\ \E table_name \in DemoTables, outcome \in LookupOutcomes :
        LET table_id == lookup_table(base_tables, table_name)
            call == [NoTableCall EXCEPT
                        !.op = "_create_or_get_table", !.table_name = table_name,
                        !.before = failed_tables,
                        !.log = IF outcome = "ConfigurationError"
                                THEN <<>> ELSE <<"get_base_schema">>]
        IN  IF outcome # "None"
            THEN /\ failed_tables' = Append(failed_tables, table_name)
                 /\ table_call' = [call EXCEPT !.pc = "returned", !.error = outcome]
            ELSE /\ failed_tables' = failed_tables
                 /\ table_call' = [call EXCEPT
                                      !.schema = base_tables,
                                      !.looked_up = TRUE,
                                      !.pc = IF table_id # "None" THEN "returned" ELSE "create",
                                      !.ret = table_id]
    /\ UNCHANGED base_tables
    /\ UNCHANGED <<resolver_vars, mapper_vars, config_vars, manager_vars, binding_vars,
                   researcher_vars, tools_vars, agent_vars>>

\* result = model_class.create_table(); table_id = result.get('id', None)
CreateTable ==
    /\ table_call.pc = "create"
    /\ \E outcome \in CreateOutcomes :
        LET created == outcome \in {"created", "created_without_id"}
            call == [table_call EXCEPT !.pc = "returned", !.log = Append(@, "create_table")]
        IN  /\ base_tables' =
                   IF created
                   THEN Append(base_tables, [name |-> table_call.table_name,
                                             id |-> TableId(table_call.table_name)])
                   ELSE base_tables
            /\ failed_tables' = IF created THEN failed_tables
                                ELSE Append(failed_tables, table_call.table_name)
            /\ table_call' =
                   IF created
                   THEN [call EXCEPT !.ret = IF outcome = "created"
                                             THEN TableId(table_call.table_name)
                                             ELSE "None"]
                   ELSE [call EXCEPT !.error = outcome]
    /\ UNCHANGED <<resolver_vars, mapper_vars, config_vars, manager_vars, binding_vars,
                   researcher_vars, tools_vars, agent_vars>>

\* the call has returned; demonstrate_table_creation goes on to the next table
TableReturn ==
    /\ table_call.pc = "returned"
    /\ table_call' = NoTableCall
    /\ UNCHANGED <<base_tables, failed_tables>>
    /\ UNCHANGED <<resolver_vars, mapper_vars, config_vars, manager_vars, binding_vars,
                   researcher_vars, tools_vars, agent_vars>>

NextTables ==
    \/ LookupSchema
    \/ CreateTable
    \/ TableReturn

SpecTables == InitTables /\ [][NextTables]_vars

\* ------------------------------------------------------------------------
\* Properties of _create_or_get_table
\* ------------------------------------------------------------------------
\* the schema the lookup returned lists a table with the requested name
NamePresent ==
    \E i \in DOMAIN table_call.schema : table_call.schema[i].name = table_call.table_name

\* C30: _create_or_get_table calls create_table only after a schema lookup
\* that did not list a table with the requested name; when the name is
\* listed it returns that table's id and makes no create call; it never
\* raises, and when an error occurred it has appended the table name to
\* failed_tables and returns None.
CreateOrGetTableContract ==
    table_call.op = "_create_or_get_table" =>
        /\ table_call.log \in {<<>>, <<"get_base_schema">>,
                               <<"get_base_schema", "create_table">>}
        /\ Len(table_call.log) = 2 => table_call.looked_up /\ ~NamePresent
        /\ table_call.raised = "None"
        /\ table_call.looked_up /\ NamePresent =>
               /\ table_call.pc = "returned"
               /\ table_call.log = <<"get_base_schema">>
               /\ \E i \in DOMAIN table_call.schema :
                      /\ table_call.schema[i].name = table_call.table_name
                      /\ table_call.ret = table_call.schema[i].id
               /\ failed_tables = table_call.before
        /\ table_call.pc = "returned" =>
               IF table_call.error # "None"
               THEN /\ table_call.ret = "None"
                    /\ failed_tables = Append(table_call.before, table_call.table_name)
               ELSE failed_tables = table_call.before

\* the Tasks table was looked up in a base that has it, after an earlier
\* call had failed, and its id was returned without a create call
WitnessCreateOrGetTableContract ==
    /\ table_call.op = "_create_or_get_table"
    /\ table_call.pc = "returned"
    /\ table_call.table_name = "Tasks"
    /\ table_call.looked_up
    /\ NamePresent
    /\ table_call.ret = TableId("Tasks")
    /\ table_call.log = <<"get_base_schema">>
    /\ failed_tables # <<>>

====
